---- MODULE Spec2Model ----
(***************************************************************************)
(* Model of the handlers of the classified ads server: ads, payments,      *)
(* accounts, categories and membership packages (server/src/handlers).     *)
(*                                                                         *)
(* The data store is the relational tables of db/schema.ts: each table is  *)
(* a function from the serial id to the row.  A handler is a sequence of   *)
(* statements, one per awaited query; the code between two awaits runs     *)
(* without interruption (single-threaded event loop), so one statement of  *)
(* the model is one query together with the synchronous code that follows  *)
(* it up to the next await.  Every statement is an operator from the       *)
(* world (tables and clock) and the call's frame to the next world and     *)
(* frame.  The server gives way to other requests at every await and no   *)
(* handler opens a transaction, so every specification takes one statement *)
(* of one call at a time: an action of a handler is the arrival of a       *)
(* request, which runs the handler's first statement, and Advance resumes  *)
(* a call under way at its next statement.  Run composes the statements of *)
(* one call to completion, as when no other request is served meanwhile.   *)
(*                                                                         *)
(* Money is kept in hundredths (numeric(10,2)); timestamps are day counts. *)
(***************************************************************************)
EXTENDS Integers, Sequences, FiniteSets, TLC

VARIABLES users, ads, payments, packages, categories, seq, now, calls

vars == <<users, ads, payments, packages, categories, seq, now, calls>>

----------------------------------------------------------------------------
(* Bounds of the model.                                                    *)

\* number of handler calls of one behaviour (one slot of `calls` per call)
NumCalls == 3
\* boost credits the ad owner holds in the initial state
InitCredits == 1
\* the last day of the clock
MaxNow == 3
\* number of calls of one behaviour of the account handlers
NumAuthCalls == 5
\* the number of calls of a behaviour in which the handlers of ads, payments
\* and memberships overlap, each with all of its inputs
NumOverlapping == 2

\* SQL NULL of an integer or timestamp column (serial ids and days are >= 1)
NULL == 0
\* SQL NULL of a text column
NoText == "<null>"

----------------------------------------------------------------------------
(* The tables in the initial state: the rows the test suites insert         *)
(* before they call a handler.                                              *)

OwnerId == 1
AdminId == 2
OtherId == 3
AbsentUserId == 4
TheAdId == 1
AbsentAdId == 2
ThePackageId == 1
InactivePackageId == 2
AbsentPackageId == 3
AbsentPaymentId == 4
TheCategoryId == 1
InactiveCategoryId == 2

\* boost_credits a membership package grants
PackageCredits == 2

\* hashPassword: the password behind the prefix 'hashed_'
hashPassword(password) == <<"hashed_", password>>

\* verifyPassword: the stored hash is the prefix 'hashed_' and this password
verifyPassword(password, hash) == hash = <<"hashed_", password>>

\* the owner of the ad, an administrator and a third user, neither owner nor
\* administrator
usersTable ==
  [u \in {OwnerId, AdminId, OtherId} |->
     [id |-> u,
      email |-> CASE u = OwnerId -> "owner@example.com"
                  [] u = AdminId -> "admin@example.com"
                  [] OTHER -> "other@example.com",
      password_hash |-> hashPassword("password123"),
      full_name |-> "Test User",
      phone |-> NoText,
      avatar_url |-> NoText,
      membership_id |-> NULL,
      boost_credits |-> IF u = OwnerId THEN InitCredits ELSE 0,
      is_admin |-> (u = AdminId),
      is_active |-> TRUE,
      updated_at |-> 1]]

\* an active package and a deactivated one
membershipPackagesTable ==
  [m \in {ThePackageId, InactivePackageId} |->
     [id |-> m,
      name |-> "Premium Package",
      description |-> "Premium membership with extra features",
      price |-> 9999,
      duration_days |-> 30,
      max_ads |-> 50,
      boost_credits |-> PackageCredits,
      features |-> <<"priority_support">>,
      is_active |-> (m = ThePackageId),
      created_at |-> 1]]

\* an active category and a deactivated one
categoriesTable ==
  [k \in {TheCategoryId, InactiveCategoryId} |->
     [id |-> k,
      name |-> IF k = TheCategoryId THEN "Test Category" ELSE "Inactive Category",
      description |-> "A category for testing",
      icon_url |-> NoText,
      is_active |-> (k = TheCategoryId),
      created_at |-> 1]]

adsTable ==
  [a \in {TheAdId} |->
     [id |-> a,
      user_id |-> OwnerId,
      category_id |-> 1,
      title |-> "Test Ad",
      description |-> "Test description",
      price |-> 10000,
      location |-> "Test Location",
      contact_info |-> "test@contact.com",
      images |-> <<"image1.jpg">>,
      is_boosted |-> FALSE,
      boost_expires_at |-> NULL,
      view_count |-> 0,
      contact_count |-> 0,
      status |-> "active",
      rejection_reason |-> NoText,
      created_at |-> 1,
      updated_at |-> 1]]

\* payment 1: membership payment; payment 2: boost payment for the ad;
\* payment 3: boost payment without an ad reference
paymentsTable ==
  [p \in {1, 2, 3} |->
     [id |-> p,
      user_id |-> OwnerId,
      membership_id |-> IF p = 1 THEN ThePackageId ELSE NULL,
      ad_id |-> IF p = 2 THEN TheAdId ELSE NULL,
      type |-> IF p = 1 THEN "membership" ELSE "boost",
      amount |-> CASE p = 1 -> 9999 [] p = 2 -> 150 [] OTHER -> 5000,
      status |-> "pending",
      midtrans_transaction_id |-> CASE p = 1 -> "TXN1" [] p = 2 -> "TXN2" [] OTHER -> "TXN3",
      midtrans_response |-> <<>>,
      updated_at |-> 1]]

\* the last value each serial id sequence has handed out
serialSequences ==
  [users |-> OtherId, ads |-> TheAdId, payments |-> 3,
   packages |-> InactivePackageId, categories |-> InactiveCategoryId]

\* the listing fixture: three active ads, the last two created at the same
\* time, and a draft
adsListTable ==
  [a \in 1..4 |->
     [id |-> a,
      user_id |-> IF a = 3 THEN OtherId ELSE OwnerId,
      category_id |-> IF a = 2 THEN 2 ELSE 1,
      title |-> IF a = 2 THEN "Koi Ad" ELSE "Test Ad",
      description |-> IF a = 2 THEN "Koi description" ELSE "Test description",
      price |-> a * 10000,
      location |-> IF a = 2 THEN "Koi Location" ELSE "Test Location",
      contact_info |-> "test@contact.com",
      images |-> <<"image1.jpg">>,
      is_boosted |-> FALSE,
      boost_expires_at |-> NULL,
      view_count |-> 0,
      contact_count |-> 0,
      status |-> IF a = 4 THEN "draft" ELSE "active",
      rejection_reason |-> NoText,
      created_at |-> IF a = 1 THEN 1 ELSE 2,
      updated_at |-> 2]]

\* the characters of the texts of the listing fixture and of its filters
Chars(text) ==
  CASE text = "Test Ad" ->
         <<"T", "e", "s", "t", " ", "A", "d">>
    [] text = "Test description" ->
         <<"T", "e", "s", "t", " ", "d", "e", "s", "c", "r", "i", "p", "t", "i", "o", "n">>
    [] text = "Test Location" ->
         <<"T", "e", "s", "t", " ", "L", "o", "c", "a", "t", "i", "o", "n">>
    [] text = "Koi Ad" ->
         <<"K", "o", "i", " ", "A", "d">>
    [] text = "Koi description" ->
         <<"K", "o", "i", " ", "d", "e", "s", "c", "r", "i", "p", "t", "i", "o", "n">>
    [] text = "Koi Location" ->
         <<"K", "o", "i", " ", "L", "o", "c", "a", "t", "i", "o", "n">>
    [] text = "Test" ->
         <<"T", "e", "s", "t">>
    [] text = "Koi" ->
         <<"K", "o", "i">>
    [] text = "koi" ->
         <<"k", "o", "i">>
    [] text = "Location" ->
         <<"L", "o", "c", "a", "t", "i", "o", "n">>
    [] text = "Jakarta" ->
         <<"J", "a", "k", "a", "r", "t", "a">>

----------------------------------------------------------------------------
(* Queries.                                                                 *)

\* db.select().from(table).where(eq(table.id, id)): the rows found
SelectById(table, id) ==
  IF id \in DOMAIN table THEN <<table[id]>> ELSE <<>>

\* db.update(table).set(values).where(eq(table.id, id)): the columns named
\* in `values` are overwritten in the row with this id; no row, no change
UpdateById(table, id, values) ==
  [k \in DOMAIN table |->
     IF k = id
     THEN [f \in DOMAIN table[k] |->
             IF f \in DOMAIN values THEN values[f] ELSE table[k][f]]
     ELSE table[k]]

\* db.insert(table).values(...): the row is stored under its new serial id
InsertRow(table, row) ==
  [k \in DOMAIN table \cup {row.id} |-> IF k = row.id THEN row ELSE table[k]]

\* nextval of the serial sequence of a table
NextVal(sequences, table) == [sequences EXCEPT ![table] = @ + 1]

\* the largest value of an integer column
MaxInteger == 2147483647

\* a + b, for b >= 0, is a value of an integer column; a larger value makes
\* the statement that writes it fail with 'integer out of range'
FitsInteger(a, b) == a <= MaxInteger - b

\* a number or null used as a condition: null and 0 are falsy
Truthy(n) == n # NULL /\ n # 0

----------------------------------------------------------------------------
(* Frames of handler calls.                                                 *)

World == [users |-> users, ads |-> ads, payments |-> payments,
          packages |-> packages, categories |-> categories,
          seq |-> seq, now |-> now]

NoInput ==
  [id |-> NULL, userId |-> NULL, duration_days |-> 0, status |-> "",
   rejection_reason |-> NoText, fields |-> <<>>,
   transactionId |-> "", response |-> <<>>, token |-> <<>>, tiebreak |-> <<>>]

\* a slot of `calls` no call has taken yet
NoCall ==
  [op |-> "none", pc |-> "idle", input |-> NoInput,
   ads |-> <<>>, users |-> <<>>, payments |-> <<>>, memberships |-> <<>>,
   boostExpiry |-> NULL, stamp |-> NULL, paymentStatus |-> "",
   paymentId |-> NULL, result |-> "", ret |-> <<>>]

NewCall(op, pc, input) ==
  [NoCall EXCEPT !.op = op, !.pc = pc, !.input = input]

Out(w, c) == [w |-> w, c |-> c]
Goto(c, pc) == [c EXCEPT !.pc = pc]
\* the handler returns `ret`
Return(c, ret) == [c EXCEPT !.pc = "done", !.result = "ok", !.ret = <<ret>>]
\* the handler throws new Error(msg)
Throw(c, msg) == [c EXCEPT !.pc = "done", !.result = msg]
\* the call has returned
Succeeded(c) == c.pc = "done" /\ c.result = "ok"

----------------------------------------------------------------------------
(* boostAd(input, userId)                                                   *)

BoostAdInput(ad_id, duration_days, userId) ==
  [NoInput EXCEPT !.id = ad_id, !.duration_days = duration_days, !.userId = userId]

boostAd_call(ad_id, duration_days, userId) ==
  NewCall("boostAd", "boostAd_selectAd", BoostAdInput(ad_id, duration_days, userId))

\* select the ad; it must exist and belong to userId
boostAd_selectAd(w, c) ==
  LET found == SelectById(w.ads, c.input.id) IN
  IF Len(found) = 0 THEN Out(w, Throw(c, "Ad not found"))
  ELSE IF found[1].user_id # c.input.userId
       THEN Out(w, Throw(c, "Unauthorized - ad does not belong to user"))
       ELSE Out(w, Goto([c EXCEPT !.ads = found], "boostAd_selectUser"))

\* the credit check of boostAd on the user row it read
HasBoostCredit(user) == ~(user.boost_credits < 1)

\* select the user; it must hold a credit; compute the expiry
boostAd_selectUser(w, c) ==
  LET found == SelectById(w.users, c.input.userId) IN
  IF Len(found) = 0 THEN Out(w, Throw(c, "User not found"))
  ELSE IF ~HasBoostCredit(found[1])
       THEN Out(w, Throw(c, "Insufficient boost credits"))
       ELSE Out(w, Goto([c EXCEPT !.users = found,
                                  !.boostExpiry = w.now + c.input.duration_days,
                                  !.stamp = w.now],
                        "boostAd_updateAd"))

\* the flag is set without the expiry
boostAd_updateAd_flagOnly(w, c) ==
  LET set == [is_boosted |-> TRUE, updated_at |-> c.stamp]
      ads2 == UpdateById(w.ads, c.input.id, set)
  IN Out([w EXCEPT !.ads = ads2],
         Goto([c EXCEPT !.ads = SelectById(ads2, c.input.id)], "boostAd_updateUser"))

\* update the ad with the boost, returning the row
boostAd_updateAd(w, c) ==
  LET set == [is_boosted |-> TRUE,
              boost_expires_at |-> c.boostExpiry,
              updated_at |-> c.stamp]
      ads2 == UpdateById(w.ads, c.input.id, set)
  IN Out([w EXCEPT !.ads = ads2],
         Goto([c EXCEPT !.ads = SelectById(ads2, c.input.id)], "boostAd_updateUser"))

\* a debit computed on the stored balance, without a new check
BoostDebit_stored(w, c) == w.users[c.input.userId].boost_credits - 1

\* a debit of one credit per day of boost
BoostDebit_perDay(w, c) == c.users[1].boost_credits - c.input.duration_days

\* the value boostAd writes to boost_credits: one less than the value it read
BoostDebit(w, c) == c.users[1].boost_credits - 1

\* deduct the credit from the user and return the boosted ad
boostAd_updateUser(w, c) ==
  LET set == [boost_credits |-> BoostDebit(w, c)]
  IN Out([w EXCEPT !.users = UpdateById(w.users, c.input.userId, set)],
         Return(c, c.ads[1]))

----------------------------------------------------------------------------
(* getAdById(id)                                                            *)

getAdById_call(id) ==
  NewCall("getAdById", "getAdById_select", [NoInput EXCEPT !.id = id])

\* select the ad; an absent ad is returned as null
getAdById_select(w, c) ==
  LET found == SelectById(w.ads, c.input.id) IN
  IF Len(found) = 0 THEN Out(w, Return(c, NULL))
  ELSE Out(w, Goto([c EXCEPT !.ads = found], "getAdById_update"))

\* the view count is written, but the ad is returned as it was read
getAdById_update_stale(w, c) ==
  LET set == [view_count |-> c.ads[1].view_count + 1]
  IN Out([w EXCEPT !.ads = UpdateById(w.ads, c.input.id, set)],
         Return(c, c.ads[1]))

\* write the view count read plus one, and return the ad with that count
getAdById_update(w, c) ==
  LET set == [view_count |-> c.ads[1].view_count + 1]
  IN Out([w EXCEPT !.ads = UpdateById(w.ads, c.input.id, set)],
         Return(c, [c.ads[1] EXCEPT !.view_count = c.ads[1].view_count + 1]))

----------------------------------------------------------------------------
(* updateAd(input, userId): input.fields holds the provided fields only     *)

UpdatableFields == {"title", "description", "price", "location", "contact_info", "images"}

updateAd_call(id, fields, userId) ==
  NewCall("updateAd", "updateAd_select",
          [NoInput EXCEPT !.id = id, !.fields = fields, !.userId = userId])

\* the ad must exist, whoever the caller is
updateAd_select_anyUser(w, c) ==
  LET found == SelectById(w.ads, c.input.id) IN
  IF Len(found) = 0 THEN Out(w, Throw(c, "Ad not found"))
  ELSE Out(w, Goto([c EXCEPT !.ads = found, !.stamp = w.now], "updateAd_update"))

\* select the ad; it must exist and belong to userId
updateAd_select(w, c) ==
  LET found == SelectById(w.ads, c.input.id) IN
  IF Len(found) = 0 THEN Out(w, Throw(c, "Ad not found"))
  ELSE IF found[1].user_id # c.input.userId
       THEN Out(w, Throw(c, "Unauthorized - ad does not belong to user"))
       ELSE Out(w, Goto([c EXCEPT !.ads = found, !.stamp = w.now], "updateAd_update"))

\* updateValues: updated_at and every provided field
UpdateValues(fields, stamp) ==
  [f \in {"updated_at"} \cup (DOMAIN fields \cap UpdatableFields) |->
     IF f = "updated_at" THEN stamp ELSE fields[f]]

\* update the ad, returning the row
updateAd_update(w, c) ==
  LET set == UpdateValues(c.input.fields, c.stamp)
      ads2 == UpdateById(w.ads, c.input.id, set)
  IN Out([w EXCEPT !.ads = ads2], Return(c, ads2[c.input.id]))

----------------------------------------------------------------------------
(* deleteAd(id, userId)                                                     *)

deleteAd_call(id, userId) ==
  NewCall("deleteAd", "deleteAd_selectAd", [NoInput EXCEPT !.id = id, !.userId = userId])

\* select the ad; it must exist
deleteAd_selectAd(w, c) ==
  LET found == SelectById(w.ads, c.input.id) IN
  IF Len(found) = 0 THEN Out(w, Throw(c, "Ad not found"))
  ELSE Out(w, Goto([c EXCEPT !.ads = found], "deleteAd_selectUser"))

\* any user that exists may delete
MayDelete_anyUser(ad, user, userId) == TRUE

\* the caller may delete: the owner of the ad, or an admin
MayDelete(ad, user, userId) == ~(ad.user_id # userId /\ ~user.is_admin)

\* select the user; it must exist and own the ad or be an admin
deleteAd_selectUser(w, c) ==
  LET found == SelectById(w.users, c.input.userId) IN
  IF Len(found) = 0 THEN Out(w, Throw(c, "User not found"))
  ELSE IF ~MayDelete(c.ads[1], found[1], c.input.userId)
       THEN Out(w, Throw(c, "Unauthorized - cannot delete this ad"))
       ELSE Out(w, Goto([c EXCEPT !.users = found, !.stamp = w.now], "deleteAd_update"))

\* soft delete: set the status to 'deleted'
deleteAd_update(w, c) ==
  LET set == [status |-> "deleted", updated_at |-> c.stamp]
  IN Out([w EXCEPT !.ads = UpdateById(w.ads, c.input.id, set)], Return(c, TRUE))

----------------------------------------------------------------------------
(* moderateAd(input)                                                        *)

moderateAd_call(ad_id, status, rejection_reason) ==
  NewCall("moderateAd", "moderateAd_select",
          [NoInput EXCEPT !.id = ad_id, !.status = status,
                          !.rejection_reason = rejection_reason])

\* select the ad; it must exist
moderateAd_select(w, c) ==
  LET found == SelectById(w.ads, c.input.id) IN
  IF Len(found) = 0 THEN Out(w, Throw(c, "Ad not found"))
  ELSE Out(w, Goto([c EXCEPT !.ads = found, !.stamp = w.now], "moderateAd_update"))

\* set the status and the rejection reason (the input schema always provides
\* rejection_reason, a string or null), returning the row
moderateAd_update(w, c) ==
  LET set == [status |-> c.input.status,
              updated_at |-> c.stamp,
              rejection_reason |-> c.input.rejection_reason]
      ads2 == UpdateById(w.ads, c.input.id, set)
  IN Out([w EXCEPT !.ads = ads2], Return(c, ads2[c.input.id]))

----------------------------------------------------------------------------
(* incrementContactCount(id)                                                *)

incrementContactCount_call(id) ==
  NewCall("incrementContactCount", "incrementContactCount_select",
          [NoInput EXCEPT !.id = id])

\* select the ad; it must exist
incrementContactCount_select(w, c) ==
  LET found == SelectById(w.ads, c.input.id) IN
  IF Len(found) = 0 THEN Out(w, Throw(c, "Ad not found"))
  ELSE Out(w, Goto([c EXCEPT !.ads = found], "incrementContactCount_update"))

\* write the contact count read plus one
incrementContactCount_update(w, c) ==
  LET set == [contact_count |-> c.ads[1].contact_count + 1]
  IN Out([w EXCEPT !.ads = UpdateById(w.ads, c.input.id, set)], Return(c, TRUE))

----------------------------------------------------------------------------
(* processSuccessfulPayment(paymentId)                                      *)

processSuccessfulPayment_call(paymentId) ==
  [NewCall("processSuccessfulPayment", "processSuccessfulPayment_select",
           [NoInput EXCEPT !.id = paymentId])
     EXCEPT !.paymentId = paymentId]

\* Math.floor(parseFloat(payment.amount)) of an amount kept in hundredths
CreditsToAdd(amount) == amount \div 100

\* which entitlement a payment row gets: the branch taken after the select
EntitlementBranch(payment) ==
  IF payment.type = "membership" /\ payment.membership_id # NULL THEN "membership"
  ELSE IF payment.type = "boost" /\ payment.ad_id # NULL THEN "boost"
  ELSE "none"

\* select the payment; it must exist; branch on its type and reference
processSuccessfulPayment_select(w, c) ==
  LET found == SelectById(w.payments, c.paymentId) IN
  IF Len(found) = 0 THEN Out(w, Throw(c, "Payment not found"))
  ELSE LET c2 == [c EXCEPT !.payments = found, !.stamp = w.now] IN
       CASE EntitlementBranch(found[1]) = "membership" ->
              Out(w, Goto(c2, "processSuccessfulPayment_assignMembership"))
         [] EntitlementBranch(found[1]) = "boost" ->
              Out(w, Goto(c2, "processSuccessfulPayment_selectUserBoost"))
         [] OTHER -> Out(w, Return(c2, TRUE))

\* membership payment: assign the membership to the user
processSuccessfulPayment_assignMembership(w, c) ==
  LET payment == c.payments[1]
      set == [membership_id |-> payment.membership_id, updated_at |-> c.stamp]
  IN Out([w EXCEPT !.users = UpdateById(w.users, payment.user_id, set)],
         Goto(c, "processSuccessfulPayment_selectMembership"))

\* membership payment: select the package for its credits
processSuccessfulPayment_selectMembership(w, c) ==
  LET found == SelectById(w.packages, c.payments[1].membership_id) IN
  IF Len(found) > 0
  THEN Out(w, Goto([c EXCEPT !.memberships = found],
                   "processSuccessfulPayment_selectUserMembership"))
  ELSE Out(w, Return(c, TRUE))

\* membership payment: select the user for the current credits
processSuccessfulPayment_selectUserMembership(w, c) ==
  LET found == SelectById(w.users, c.payments[1].user_id) IN
  IF Len(found) > 0
  THEN Out(w, Goto([c EXCEPT !.users = found, !.stamp = w.now],
                   "processSuccessfulPayment_addMembershipCredits"))
  ELSE Out(w, Return(c, TRUE))

\* the balance a membership payment writes: the credits read plus the grant
MembershipCredits(w, c) == c.users[1].boost_credits + c.memberships[1].boost_credits

\* membership payment: add the package's credits to the user
processSuccessfulPayment_addMembershipCredits(w, c) ==
  IF ~FitsInteger(c.users[1].boost_credits, c.memberships[1].boost_credits)
  THEN Out(w, Throw(c, "integer out of range"))
  ELSE LET set == [boost_credits |-> MembershipCredits(w, c), updated_at |-> c.stamp]
       IN Out([w EXCEPT !.users = UpdateById(w.users, c.payments[1].user_id, set)],
              Return(c, TRUE))

\* boost payment: select the user for the current credits
processSuccessfulPayment_selectUserBoost(w, c) ==
  LET found == SelectById(w.users, c.payments[1].user_id) IN
  IF Len(found) > 0
  THEN Out(w, Goto([c EXCEPT !.users = found, !.stamp = w.now],
                   "processSuccessfulPayment_addBoostCredits"))
  ELSE Out(w, Return(c, TRUE))

\* the balance a boost payment writes: the credits read plus floor(amount)
BoostCredits(w, c) == c.users[1].boost_credits + CreditsToAdd(c.payments[1].amount)

\* boost payment: add the credits to the user
processSuccessfulPayment_addBoostCredits(w, c) ==
  IF ~FitsInteger(c.users[1].boost_credits, CreditsToAdd(c.payments[1].amount))
  THEN Out(w, Throw(c, "integer out of range"))
  ELSE LET set == [boost_credits |-> BoostCredits(w, c), updated_at |-> c.stamp]
       IN Out([w EXCEPT !.users = UpdateById(w.users, c.payments[1].user_id, set)],
              Return(c, TRUE))

----------------------------------------------------------------------------
(* handleMidtransCallback(transactionId, status, response)                  *)

handleMidtransCallback_call(transactionId, status, response) ==
  NewCall("handleMidtransCallback", "handleMidtransCallback_select",
          [NoInput EXCEPT !.transactionId = transactionId, !.status = status,
                          !.response = <<response>>])

\* the switch from the gateway's status to the payment status
PaymentStatusOf(status) ==
  CASE status \in {"settlement", "capture"} -> "paid"
    [] status \in {"deny", "expire", "failure"} -> "failed"
    [] status = "cancel" -> "cancelled"
    [] OTHER -> "pending"

\* the payments with this transaction id; the handler uses the first one
\* (transaction ids are distinct in the initial state)
SelectByTransactionId(table, transactionId) ==
  LET ids == {k \in DOMAIN table : table[k].midtrans_transaction_id = transactionId}
  IN IF ids = {} THEN <<>>
     ELSE <<table[CHOOSE k \in ids : \A j \in ids : k <= j]>>

\* find the payment of the transaction and map the status
handleMidtransCallback_select(w, c) ==
  LET found == SelectByTransactionId(w.payments, c.input.transactionId) IN
  IF Len(found) = 0 THEN Out(w, Throw(c, "Payment not found for transaction ID"))
  ELSE Out(w, Goto([c EXCEPT !.payments = found,
                             !.paymentStatus = PaymentStatusOf(c.input.status),
                             !.stamp = w.now],
                   "handleMidtransCallback_update"))

\* the columns the callback writes to the payment row
CallbackUpdate(c) ==
  [status |-> c.paymentStatus,
   midtrans_response |-> c.input.response,
   updated_at |-> c.stamp]

\* update the payment; a paid payment goes on to processSuccessfulPayment
handleMidtransCallback_update(w, c) ==
  LET set == CallbackUpdate(c)
      w2 == [w EXCEPT !.payments = UpdateById(w.payments, c.payments[1].id, set)]
  IN IF c.paymentStatus = "paid"
     THEN Out(w2, Goto([c EXCEPT !.paymentId = c.payments[1].id],
                       "processSuccessfulPayment_select"))
     ELSE Out(w2, Return(c, TRUE))

----------------------------------------------------------------------------
(* getAds(input): input.fields holds the provided filters only;             *)
(* input.tiebreak is the order in which the database returns rows the       *)
(* ORDER BY leaves unordered                                                *)

getAds_call(filters, tiebreak) ==
  NewCall("getAds", "getAds_select",
          [NoInput EXCEPT !.fields = filters, !.tiebreak = tiebreak])

\* a filter that is provided and truthy (a number other than 0)
Provided(filters, name) == name \in DOMAIN filters /\ Truthy(filters[name])
\* a text filter that is provided and not the empty string
ProvidedText(filters, name) == name \in DOMAIN filters /\ filters[name] # ""

\* like(column, `%${s}%`): s occurs in the column's text
Like(text, s) ==
  LET T == Chars(text)
      P == Chars(s)
  IN \E i \in 0..(Len(T) - Len(P)) : SubSeq(T, i + 1, i + Len(P)) = P

\* the conditions without the one on the status
GetAdsConditions_anyStatus(ad, filters) ==
  /\ Provided(filters, "category_id") => ad.category_id = filters.category_id
  /\ Provided(filters, "user_id") => ad.user_id = filters.user_id
  /\ ProvidedText(filters, "search")
       => Like(ad.title, filters.search) \/ Like(ad.description, filters.search)
  /\ ProvidedText(filters, "location") => Like(ad.location, filters.location)
  /\ "min_price" \in DOMAIN filters => ad.price >= filters.min_price
  /\ "max_price" \in DOMAIN filters => ad.price <= filters.max_price

\* and(...conditions): the status is 'active', and every provided filter holds
GetAdsConditions(ad, filters) ==
  /\ ad.status = "active"
  /\ Provided(filters, "category_id") => ad.category_id = filters.category_id
  /\ Provided(filters, "user_id") => ad.user_id = filters.user_id
  /\ ProvidedText(filters, "search")
       => Like(ad.title, filters.search) \/ Like(ad.description, filters.search)
  /\ ProvidedText(filters, "location") => Like(ad.location, filters.location)
  /\ "min_price" \in DOMAIN filters => ad.price >= filters.min_price
  /\ "max_price" \in DOMAIN filters => ad.price <= filters.max_price

\* the position of an ad in the database's order of return
Position(tiebreak, id) == CHOOSE i \in 1..Len(tiebreak) : tiebreak[i] = id

\* orderBy(desc(is_boosted), desc(created_at)): a comes before b
GetAdsOrder(a, b, tiebreak) ==
  IF a.is_boosted # b.is_boosted THEN a.is_boosted
  ELSE IF a.created_at # b.created_at THEN a.created_at > b.created_at
  ELSE Position(tiebreak, a.id) < Position(tiebreak, b.id)

\* limit(input.limit) and offset(input.offset), each applied if truthy
LimitOffset(rows, filters) ==
  LET first == IF Provided(filters, "offset") THEN filters.offset + 1 ELSE 1
      last == IF Provided(filters, "limit")
              THEN first + filters.limit - 1 ELSE Len(rows)
  IN SubSeq(rows, first, IF last > Len(rows) THEN Len(rows) ELSE last)

\* run the query and return its rows
getAds_select(w, c) ==
  LET all == [i \in 1..Len(c.input.tiebreak) |-> w.ads[c.input.tiebreak[i]]]
      matching == SelectSeq(all, LAMBDA ad : GetAdsConditions(ad, c.input.fields))
      ordered == SortSeq(matching, LAMBDA a, b : GetAdsOrder(a, b, c.input.tiebreak))
      results == LimitOffset(ordered, c.input.fields)
  IN Out(w, Return([c EXCEPT !.ads = results, !.stamp = w.now], results))

----------------------------------------------------------------------------
(* createPayment(input, userId): input.fields is the input object           *)

createPayment_call(data, userId) ==
  NewCall("createPayment", "createPayment_selectUser",
          [NoInput EXCEPT !.fields = data, !.userId = userId])

\* the validation createPayment goes on to after the user was found
PaymentValidation(data) ==
  IF data.type = "membership" /\ Truthy(data.membership_id) THEN "membership"
  ELSE IF data.type = "boost" /\ Truthy(data.ad_id) THEN "boost"
  ELSE "none"

\* select the user; it must exist
createPayment_selectUser(w, c) ==
  LET found == SelectById(w.users, c.input.userId) IN
  IF Len(found) = 0 THEN Out(w, Throw(c, "User not found"))
  ELSE CASE PaymentValidation(c.input.fields) = "membership" ->
              Out(w, Goto([c EXCEPT !.users = found], "createPayment_selectMembership"))
         [] PaymentValidation(c.input.fields) = "boost" ->
              Out(w, Goto([c EXCEPT !.users = found], "createPayment_selectAd"))
         [] OTHER -> Out(w, Goto([c EXCEPT !.users = found], "createPayment_insert"))

\* membership payment with a reference: the package must exist and be active
createPayment_selectMembership(w, c) ==
  LET found == SelectById(w.packages, c.input.fields.membership_id)
      active == SelectSeq(found, LAMBDA m : m.is_active)
  IN IF Len(active) = 0
     THEN Out(w, Throw(c, "Membership package not found or inactive"))
     ELSE Out(w, Goto([c EXCEPT !.memberships = active], "createPayment_insert"))

\* boost payment with a reference: the ad must exist and belong to userId
createPayment_selectAd(w, c) ==
  LET found == SelectById(w.ads, c.input.fields.ad_id)
      owned == SelectSeq(found, LAMBDA a : a.user_id = c.input.userId)
  IN IF Len(owned) = 0
     THEN Out(w, Throw(c, "Ad not found or not owned by user"))
     ELSE Out(w, Goto([c EXCEPT !.ads = owned], "createPayment_insert"))

\* the payment row createPayment inserts: pending, no transaction yet
NewPayment(id, data, userId, stamp) ==
  [id |-> id,
   user_id |-> userId,
   membership_id |-> data.membership_id,
   ad_id |-> data.ad_id,
   type |-> data.type,
   amount |-> data.amount,
   status |-> "pending",
   midtrans_transaction_id |-> NoText,
   midtrans_response |-> <<>>,
   updated_at |-> stamp]

\* insert the payment and return the row
createPayment_insert(w, c) ==
  LET seq2 == NextVal(w.seq, "payments")
      row == NewPayment(seq2.payments, c.input.fields, c.input.userId, w.now)
  IN Out([w EXCEPT !.payments = InsertRow(w.payments, row), !.seq = seq2],
         Return([c EXCEPT !.payments = <<row>>], row))

----------------------------------------------------------------------------
(* registerUser(input), loginUser(input), getCurrentUser(token):            *)
(* input.fields is the input object                                         *)

\* generateToken: `token_${userId}_${Date.now()}`
generateToken(userId, ms) == <<"token", userId, ms>>

\* verifyToken: the user id of a text of the form token_<digits>_<digits>,
\* null for any other text
verifyToken(token) ==
  IF Len(token) = 3 /\ token[1] = "token" /\ token[2] \in Nat /\ token[3] \in Nat
  THEN token[2] ELSE NULL

\* db.select().from(usersTable).where(eq(usersTable.email, email))
RECURSIVE SelectByEmailFrom(_, _, _)
SelectByEmailFrom(table, email, ids) ==
  IF ids = {} THEN <<>>
  ELSE LET k == CHOOSE i \in ids : \A j \in ids : i <= j
           rest == SelectByEmailFrom(table, email, ids \ {k})
       IN IF table[k].email = email THEN <<table[k]>> \o rest ELSE rest

SelectByEmail(table, email) == SelectByEmailFrom(table, email, DOMAIN table)

\* user.boost_credits || 0
CreditsOrZero(n) == IF Truthy(n) THEN n ELSE 0

\* the response of registerUser and loginUser
AuthResponse(user, ms) ==
  [user |-> [user EXCEPT !.boost_credits = CreditsOrZero(user.boost_credits)],
   token |-> generateToken(user.id, ms)]

registerUser_call(data) ==
  NewCall("registerUser", "registerUser_select", [NoInput EXCEPT !.fields = data])

\* select the users with this email; there must be none
registerUser_select(w, c) ==
  LET existingUsers == SelectByEmail(w.users, c.input.fields.email) IN
  IF Len(existingUsers) > 0 THEN Out(w, Throw(c, "User already exists"))
  ELSE Out(w, Goto(c, "registerUser_insert"))

\* a user row that starts with a boost credit
NewUser_credit(id, data, stamp) ==
  [id |-> id,
   email |-> data.email,
   password_hash |-> hashPassword(data.password),
   full_name |-> data.full_name,
   phone |-> data.phone,
   avatar_url |-> NoText,
   membership_id |-> NULL,
   boost_credits |-> 1,
   is_admin |-> FALSE,
   is_active |-> TRUE,
   updated_at |-> stamp]

\* the user row registerUser inserts: the values given, and the defaults of
\* the other columns
NewUser(id, data, stamp) ==
  [id |-> id,
   email |-> data.email,
   password_hash |-> hashPassword(data.password),
   full_name |-> data.full_name,
   phone |-> data.phone,
   avatar_url |-> NoText,
   membership_id |-> NULL,
   boost_credits |-> 0,
   is_admin |-> FALSE,
   is_active |-> TRUE,
   updated_at |-> stamp]

\* an insert that the table accepts whatever the email
registerUser_insert_noUnique(w, c) ==
  LET seq2 == NextVal(w.seq, "users")
      row == NewUser(seq2.users, c.input.fields, w.now)
  IN Out([w EXCEPT !.users = InsertRow(w.users, row), !.seq = seq2],
         Return([c EXCEPT !.users = <<row>>, !.stamp = w.now],
                AuthResponse(row, w.now)))

\* insert the user and mint a token; the insert fails on an email that is
\* in the table by now (unique constraint), after taking a serial id
registerUser_insert(w, c) ==
  LET seq2 == NextVal(w.seq, "users")
      row == NewUser(seq2.users, c.input.fields, w.now)
  IN IF Len(SelectByEmail(w.users, row.email)) > 0
     THEN Out([w EXCEPT !.seq = seq2],
              Throw(c, "duplicate key value violates unique constraint users_email_unique"))
     ELSE Out([w EXCEPT !.users = InsertRow(w.users, row), !.seq = seq2],
              Return([c EXCEPT !.users = <<row>>, !.stamp = w.now],
                     AuthResponse(row, w.now)))

loginUser_call(data) ==
  NewCall("loginUser", "loginUser_select", [NoInput EXCEPT !.fields = data])

\* a login that does not look at is_active
loginUser_select_anyAccount(w, c) ==
  LET found == SelectByEmail(w.users, c.input.fields.email) IN
  IF Len(found) = 0 THEN Out(w, Throw(c, "Invalid credentials"))
  ELSE IF ~verifyPassword(c.input.fields.password, found[1].password_hash)
       THEN Out(w, Throw(c, "Invalid credentials"))
  ELSE Out(w, Return([c EXCEPT !.users = found, !.stamp = w.now],
                     AuthResponse(found[1], w.now)))

\* find the user by email, verify the password, check the account is
\* active, mint a token
loginUser_select(w, c) ==
  LET found == SelectByEmail(w.users, c.input.fields.email) IN
  IF Len(found) = 0 THEN Out(w, Throw(c, "Invalid credentials"))
  ELSE IF ~verifyPassword(c.input.fields.password, found[1].password_hash)
       THEN Out(w, Throw(c, "Invalid credentials"))
  ELSE IF ~found[1].is_active
       THEN Out(w, Throw(c, "User account is inactive"))
  ELSE Out(w, Return([c EXCEPT !.users = found, !.stamp = w.now],
                     AuthResponse(found[1], w.now)))

getCurrentUser_call(token) ==
  NewCall("getCurrentUser", "getCurrentUser_select", [NoInput EXCEPT !.token = token])

\* a session check that does not look at is_active
getCurrentUser_select_anyAccount(w, c) ==
  LET userId == verifyToken(c.input.token) IN
  IF ~Truthy(userId) THEN Out(w, Throw(c, "Invalid token"))
  ELSE LET found == SelectById(w.users, userId) IN
       IF Len(found) = 0 THEN Out(w, Throw(c, "User not found"))
       ELSE Out(w, Return([c EXCEPT !.users = found],
                          [found[1] EXCEPT !.boost_credits =
                                             CreditsOrZero(found[1].boost_credits)]))

\* verify the token, find its user, check the account is active
getCurrentUser_select(w, c) ==
  LET userId == verifyToken(c.input.token) IN
  IF ~Truthy(userId) THEN Out(w, Throw(c, "Invalid token"))
  ELSE LET found == SelectById(w.users, userId) IN
       IF Len(found) = 0 THEN Out(w, Throw(c, "User not found"))
       ELSE IF ~found[1].is_active
            THEN Out(w, Throw(c, "User account is inactive"))
       ELSE Out(w, Return([c EXCEPT !.users = found],
                          [found[1] EXCEPT !.boost_credits =
                                             CreditsOrZero(found[1].boost_credits)]))

----------------------------------------------------------------------------
(* updateUser(input): input.fields holds the provided fields only           *)

updateUser_call(id, fields) ==
  NewCall("updateUser", "updateUser_update", [NoInput EXCEPT !.id = id, !.fields = fields])

\* updateData: updated_at, and full_name, phone and avatar_url where provided
UpdateData(fields, stamp) ==
  [f \in {"updated_at"} \cup (DOMAIN fields \cap {"full_name", "phone", "avatar_url"}) |->
     IF f = "updated_at" THEN stamp ELSE fields[f]]

\* update the user, returning the row; no row is an error
updateUser_update(w, c) ==
  LET users2 == UpdateById(w.users, c.input.id, UpdateData(c.input.fields, w.now))
      found == SelectById(users2, c.input.id)
  IN IF Len(found) = 0 THEN Out(w, Throw(c, "User not found"))
     ELSE Out([w EXCEPT !.users = users2],
              Return(c, [found[1] EXCEPT !.boost_credits = found[1].boost_credits]))

----------------------------------------------------------------------------
(* deactivateUser(id), activateUser(id)                                     *)

deactivateUser_call(id) ==
  NewCall("deactivateUser", "deactivateUser_update", [NoInput EXCEPT !.id = id])

\* set is_active to false; true iff a row was updated
deactivateUser_update(w, c) ==
  LET set == [is_active |-> FALSE, updated_at |-> w.now]
  IN Out([w EXCEPT !.users = UpdateById(w.users, c.input.id, set)],
         Return(c, Len(SelectById(w.users, c.input.id)) > 0))

activateUser_call(id) ==
  NewCall("activateUser", "activateUser_update", [NoInput EXCEPT !.id = id])

\* set is_active to true; true iff a row was updated
activateUser_update(w, c) ==
  LET set == [is_active |-> TRUE, updated_at |-> w.now]
  IN Out([w EXCEPT !.users = UpdateById(w.users, c.input.id, set)],
         Return(c, Len(SelectById(w.users, c.input.id)) > 0))

----------------------------------------------------------------------------
(* createAd(input, userId)                                                  *)

createAd_call(data, userId) ==
  NewCall("createAd", "createAd_selectUser",
          [NoInput EXCEPT !.fields = data, !.userId = userId])

\* select the user; it must exist
createAd_selectUser(w, c) ==
  LET found == SelectById(w.users, c.input.userId) IN
  IF Len(found) = 0 THEN Out(w, Throw(c, "User not found"))
  ELSE Out(w, Goto([c EXCEPT !.users = found], "createAd_selectCategory"))

\* select the category by id; it must exist
createAd_selectCategory(w, c) ==
  LET found == SelectById(w.categories, c.input.fields.category_id) IN
  IF Len(found) = 0 THEN Out(w, Throw(c, "Category not found"))
  ELSE Out(w, Goto(c, "createAd_insert"))

\* a row inserted as an active ad
NewAd_active(id, data, userId, stamp) ==
  [id |-> id,
   user_id |-> userId,
   category_id |-> data.category_id,
   title |-> data.title,
   description |-> data.description,
   price |-> data.price,
   location |-> data.location,
   contact_info |-> data.contact_info,
   images |-> data.images,
   is_boosted |-> FALSE,
   boost_expires_at |-> NULL,
   view_count |-> 0,
   contact_count |-> 0,
   status |-> "active",
   rejection_reason |-> NoText,
   created_at |-> stamp,
   updated_at |-> stamp]

\* the row createAd inserts: the values of the input, and the defaults of
\* the columns it does not name (status 'draft', not boosted, counters 0)
NewAd(id, data, userId, stamp) ==
  [id |-> id,
   user_id |-> userId,
   category_id |-> data.category_id,
   title |-> data.title,
   description |-> data.description,
   price |-> data.price,
   location |-> data.location,
   contact_info |-> data.contact_info,
   images |-> data.images,
   is_boosted |-> FALSE,
   boost_expires_at |-> NULL,
   view_count |-> 0,
   contact_count |-> 0,
   status |-> "draft",
   rejection_reason |-> NoText,
   created_at |-> stamp,
   updated_at |-> stamp]

\* insert the ad and return the row
createAd_insert(w, c) ==
  LET seq2 == NextVal(w.seq, "ads")
      row == NewAd(seq2.ads, c.input.fields, c.input.userId, w.now)
  IN Out([w EXCEPT !.ads = InsertRow(w.ads, row), !.seq = seq2],
         Return([c EXCEPT !.ads = <<row>>], row))

----------------------------------------------------------------------------
(* Categories: getCategories(), createCategory(input),                      *)
(* updateCategory(id, input), deleteCategory(id)                            *)

\* the rows of a table that are active (the array returned has no order
\* clause: it is kept as the set of its rows)
SelectActive(table) == {table[k] : k \in {j \in DOMAIN table : table[j].is_active}}

getCategories_call == NewCall("getCategories", "getCategories_select", NoInput)

\* select the active categories
getCategories_select(w, c) == Out(w, Return(c, SelectActive(w.categories)))

createCategory_call(fields) ==
  NewCall("createCategory", "createCategory_insert", [NoInput EXCEPT !.fields = fields])

\* the row createCategory inserts
NewCategory(id, fields, stamp) ==
  [id |-> id,
   name |-> fields.name,
   description |-> fields.description,
   icon_url |-> fields.icon_url,
   is_active |-> TRUE,
   created_at |-> stamp]

\* insert the category and return the row
createCategory_insert(w, c) ==
  LET id == w.seq.categories + 1
      row == NewCategory(id, c.input.fields, w.now)
  IN Out([w EXCEPT !.categories = InsertRow(w.categories, row),
                   !.seq = NextVal(w.seq, "categories")],
         Return(c, row))

updateCategory_call(id, fields) ==
  NewCall("updateCategory", "updateCategory_update",
          [NoInput EXCEPT !.id = id, !.fields = fields])

\* update the provided fields, returning the row; no row is an error
updateCategory_update(w, c) ==
  LET categories2 == UpdateById(w.categories, c.input.id, c.input.fields)
      found == SelectById(categories2, c.input.id)
  IN IF Len(found) = 0
     THEN Out(w, Throw(c, "Category with id " \o ToString(c.input.id) \o " not found"))
     ELSE Out([w EXCEPT !.categories = categories2], Return(c, found[1]))

deleteCategory_call(id) ==
  NewCall("deleteCategory", "deleteCategory_update", [NoInput EXCEPT !.id = id])

\* the row is deleted from the table
deleteCategory_update_hard(w, c) ==
  LET found == SelectById(w.categories, c.input.id)
  IN Out([w EXCEPT !.categories =
             [k \in DOMAIN w.categories \ {c.input.id} |-> w.categories[k]]],
         Return(c, Len(found) > 0))

\* set is_active to false, returning the rows updated: true when there is one
deleteCategory_update(w, c) ==
  LET set == [is_active |-> FALSE]
      categories2 == UpdateById(w.categories, c.input.id, set)
      result == SelectById(categories2, c.input.id)
  IN Out([w EXCEPT !.categories = categories2], Return(c, Len(result) > 0))

----------------------------------------------------------------------------
(* Membership packages: getMembershipPackages(),                            *)
(* createMembershipPackage(input), updateMembershipPackage(id, input),      *)
(* deactivateMembershipPackage(id), assignMembershipToUser(userId, id)      *)

getMembershipPackages_call ==
  NewCall("getMembershipPackages", "getMembershipPackages_select", NoInput)

\* select the active packages
getMembershipPackages_select(w, c) == Out(w, Return(c, SelectActive(w.packages)))

createMembershipPackage_call(fields) ==
  NewCall("createMembershipPackage", "createMembershipPackage_insert",
          [NoInput EXCEPT !.fields = fields])

\* the row createMembershipPackage inserts: is_active has its default
NewPackage(id, fields, stamp) ==
  [id |-> id,
   name |-> fields.name,
   description |-> fields.description,
   price |-> fields.price,
   duration_days |-> fields.duration_days,
   max_ads |-> fields.max_ads,
   boost_credits |-> fields.boost_credits,
   features |-> fields.features,
   is_active |-> TRUE,
   created_at |-> stamp]

\* insert the package and return the row
createMembershipPackage_insert(w, c) ==
  LET id == w.seq.packages + 1
      row == NewPackage(id, c.input.fields, w.now)
  IN Out([w EXCEPT !.packages = InsertRow(w.packages, row),
                   !.seq = NextVal(w.seq, "packages")],
         Return(c, row))

updateMembershipPackage_call(id, fields) ==
  NewCall("updateMembershipPackage", "updateMembershipPackage_update",
          [NoInput EXCEPT !.id = id, !.fields = fields])

\* update the provided fields, returning the row; no row is an error
updateMembershipPackage_update(w, c) ==
  LET packages2 == UpdateById(w.packages, c.input.id, c.input.fields)
      found == SelectById(packages2, c.input.id)
  IN IF Len(found) = 0 THEN Out(w, Throw(c, "Membership package not found"))
     ELSE Out([w EXCEPT !.packages = packages2], Return(c, found[1]))

deactivateMembershipPackage_call(id) ==
  NewCall("deactivateMembershipPackage", "deactivateMembershipPackage_update",
          [NoInput EXCEPT !.id = id])

\* set is_active to false, returning the rows updated: true when there is one
deactivateMembershipPackage_update(w, c) ==
  LET set == [is_active |-> FALSE]
      packages2 == UpdateById(w.packages, c.input.id, set)
      result == SelectById(packages2, c.input.id)
  IN Out([w EXCEPT !.packages = packages2], Return(c, Len(result) > 0))

assignMembershipToUser_call(userId, membershipId) ==
  NewCall("assignMembershipToUser", "assignMembershipToUser_selectMembership",
          [NoInput EXCEPT !.userId = userId, !.id = membershipId])

\* a package is accepted when its row exists, active or not
AssignablePackage_anyState(found) == Len(found) > 0

\* the package selected by id and is_active = true: found when it exists
\* and is active
AssignablePackage(found) == Len(found) > 0 /\ found[1].is_active

\* select the package; it must exist and be active
assignMembershipToUser_selectMembership(w, c) ==
  LET found == SelectById(w.packages, c.input.id) IN
  IF ~AssignablePackage(found)
  THEN Out(w, Throw(c, "Membership package not found or inactive"))
  ELSE Out(w, Goto([c EXCEPT !.memberships = found], "assignMembershipToUser_selectUser"))

\* select the user; it must exist
assignMembershipToUser_selectUser(w, c) ==
  LET found == SelectById(w.users, c.input.userId) IN
  IF Len(found) = 0 THEN Out(w, Throw(c, "User not found"))
  ELSE Out(w, Goto([c EXCEPT !.users = found], "assignMembershipToUser_update"))

\* set the user's membership_id, returning the rows updated
assignMembershipToUser_update(w, c) ==
  LET set == [membership_id |-> c.input.id]
      users2 == UpdateById(w.users, c.input.userId, set)
      result == SelectById(users2, c.input.userId)
  IN Out([w EXCEPT !.users = users2], Return(c, Len(result) > 0))

----------------------------------------------------------------------------
(* Running calls.                                                           *)

\* the statement a call is at
Step(w, c) ==
  CASE c.pc = "boostAd_selectAd" -> boostAd_selectAd(w, c)
    [] c.pc = "boostAd_selectUser" -> boostAd_selectUser(w, c)
    [] c.pc = "boostAd_updateAd" -> boostAd_updateAd(w, c)
    [] c.pc = "boostAd_updateUser" -> boostAd_updateUser(w, c)
    [] c.pc = "getAdById_select" -> getAdById_select(w, c)
    [] c.pc = "getAdById_update" -> getAdById_update(w, c)
    [] c.pc = "updateAd_select" -> updateAd_select(w, c)
    [] c.pc = "updateAd_update" -> updateAd_update(w, c)
    [] c.pc = "deleteAd_selectAd" -> deleteAd_selectAd(w, c)
    [] c.pc = "deleteAd_selectUser" -> deleteAd_selectUser(w, c)
    [] c.pc = "deleteAd_update" -> deleteAd_update(w, c)
    [] c.pc = "moderateAd_select" -> moderateAd_select(w, c)
    [] c.pc = "moderateAd_update" -> moderateAd_update(w, c)
    [] c.pc = "incrementContactCount_select" -> incrementContactCount_select(w, c)
    [] c.pc = "incrementContactCount_update" -> incrementContactCount_update(w, c)
    [] c.pc = "processSuccessfulPayment_select" -> processSuccessfulPayment_select(w, c)
    [] c.pc = "processSuccessfulPayment_assignMembership" ->
         processSuccessfulPayment_assignMembership(w, c)
    [] c.pc = "processSuccessfulPayment_selectMembership" ->
         processSuccessfulPayment_selectMembership(w, c)
    [] c.pc = "processSuccessfulPayment_selectUserMembership" ->
         processSuccessfulPayment_selectUserMembership(w, c)
    [] c.pc = "processSuccessfulPayment_addMembershipCredits" ->
         processSuccessfulPayment_addMembershipCredits(w, c)
    [] c.pc = "processSuccessfulPayment_selectUserBoost" ->
         processSuccessfulPayment_selectUserBoost(w, c)
    [] c.pc = "processSuccessfulPayment_addBoostCredits" ->
         processSuccessfulPayment_addBoostCredits(w, c)
    [] c.pc = "handleMidtransCallback_select" -> handleMidtransCallback_select(w, c)
    [] c.pc = "handleMidtransCallback_update" -> handleMidtransCallback_update(w, c)
    [] c.pc = "getAds_select" -> getAds_select(w, c)
    [] c.pc = "registerUser_select" -> registerUser_select(w, c)
    [] c.pc = "registerUser_insert" -> registerUser_insert(w, c)
    [] c.pc = "loginUser_select" -> loginUser_select(w, c)
    [] c.pc = "getCurrentUser_select" -> getCurrentUser_select(w, c)
    [] c.pc = "updateUser_update" -> updateUser_update(w, c)
    [] c.pc = "deactivateUser_update" -> deactivateUser_update(w, c)
    [] c.pc = "activateUser_update" -> activateUser_update(w, c)
    [] c.pc = "createPayment_selectUser" -> createPayment_selectUser(w, c)
    [] c.pc = "createPayment_selectMembership" -> createPayment_selectMembership(w, c)
    [] c.pc = "createPayment_selectAd" -> createPayment_selectAd(w, c)
    [] c.pc = "createPayment_insert" -> createPayment_insert(w, c)
    [] c.pc = "createAd_selectUser" -> createAd_selectUser(w, c)
    [] c.pc = "createAd_selectCategory" -> createAd_selectCategory(w, c)
    [] c.pc = "createAd_insert" -> createAd_insert(w, c)
    [] c.pc = "getCategories_select" -> getCategories_select(w, c)
    [] c.pc = "createCategory_insert" -> createCategory_insert(w, c)
    [] c.pc = "updateCategory_update" -> updateCategory_update(w, c)
    [] c.pc = "deleteCategory_update" -> deleteCategory_update(w, c)
    [] c.pc = "getMembershipPackages_select" -> getMembershipPackages_select(w, c)
    [] c.pc = "createMembershipPackage_insert" -> createMembershipPackage_insert(w, c)
    [] c.pc = "updateMembershipPackage_update" -> updateMembershipPackage_update(w, c)
    [] c.pc = "deactivateMembershipPackage_update" ->
         deactivateMembershipPackage_update(w, c)
    [] c.pc = "assignMembershipToUser_selectMembership" ->
         assignMembershipToUser_selectMembership(w, c)
    [] c.pc = "assignMembershipToUser_selectUser" -> assignMembershipToUser_selectUser(w, c)
    [] c.pc = "assignMembershipToUser_update" -> assignMembershipToUser_update(w, c)

\* a call run from its current statement to its return or throw, with no
\* other call in between
RECURSIVE Run(_, _)
Run(w, c) ==
  IF c.pc = "done" THEN Out(w, c)
  ELSE LET r == Step(w, c) IN Run(r.w, r.c)

Slots == 1..NumCalls
\* the calls of a behaviour in which whole handlers overlap
OverlapSlots == 1..NumOverlapping
Running(p) == calls[p].pc \notin {"idle", "done"}
\* slots are taken in order
NextSlot(p) == calls[p].pc = "idle" /\ \A q \in 1..(p - 1) : calls[q].pc # "idle"

\* a statement of call p takes effect
Commit(p, r) ==
  /\ users' = r.w.users
  /\ ads' = r.w.ads
  /\ payments' = r.w.payments
  /\ packages' = r.w.packages
  /\ categories' = r.w.categories
  /\ seq' = r.w.seq
  /\ calls' = [calls EXCEPT ![p] = r.c]
  /\ UNCHANGED now

\* the first statement of a call: the request arrives and the handler runs to
\* its first await
Begin(p, c) == Commit(p, Step(World, c))
\* the next statement of a call under way
Advance == \E p \in DOMAIN calls : Running(p) /\ Commit(p, Step(World, calls[p]))

----------------------------------------------------------------------------
(* Inputs.                                                                  *)

AdIdInputs == {TheAdId, AbsentAdId}
UserIdInputs == {OwnerId, AdminId}
DurationInputs == {1, 7}
FieldInputs == {[title |-> "New title"], [price |-> 20000, location |-> "New Location"]}
ModerationInputs == {"active", "rejected"}
ReasonInputs == {NoText, "spam"}
TransactionIdInputs == {"TXN1", "TXN2", "TXN3", "TXN9"}
GatewayStatusInputs ==
  {"settlement", "capture", "deny", "expire", "failure", "cancel", "pending"}
PaymentIdInputs == {1, 2, 3, AbsentPaymentId}
\* the gateway's payload for a status
GatewayResponse(status) == [transaction_status |-> status]
\* filters of getAds: none, each kind alone, a price range, pages
GetAdsInputs ==
  {<<>>,
   [category_id |-> 2],
   [user_id |-> OtherId],
   [search |-> "Koi"],
   [location |-> "Location"],
   [min_price |-> 15000, max_price |-> 25000],
   [limit |-> 1],
   [limit |-> 2, offset |-> 1]}
\* the database returns unordered rows by ascending or by descending id
TiebreakInputs == {<<1, 2, 3, 4>>, <<4, 3, 2, 1>>}
PaymentAmountInputs == {5000}
\* registrations: with an email no user has, and with the owner's email
RegisterInputs ==
  {[email |-> e, password |-> "password123", full_name |-> "New User", phone |-> "0812"] :
     e \in {"new@example.com", "owner@example.com"}}
\* logins of the owner, with the password and with another one
LoginInputs ==
  {[email |-> "owner@example.com", password |-> pw] :
     pw \in {"password123", "wrongpassword"}}
\* the owner, and the id the next registered user gets
ActivationInputs == {OwnerId, serialSequences.users + 1}
\* the tokens handed out by the calls so far
MintedTokens ==
  {calls[p].ret[1].token :
     p \in {q \in DOMAIN calls : calls[q].op \in {"registerUser", "loginUser"}
                                  /\ Succeeded(calls[q])}}
\* a text that is not a token
InvalidTokenInputs == {<<"invalid_token">>}
\* the references of a payment input: none, a package (active, inactive,
\* absent), an ad (present, absent)
PaymentRefInputs ==
  {[membership_id |-> m, ad_id |-> NULL] :
     m \in {NULL, ThePackageId, InactivePackageId, AbsentPackageId}}
  \cup {[membership_id |-> NULL, ad_id |-> a] : a \in AdIdInputs}
CreatePaymentInputs ==
  {[membership_id |-> r.membership_id, ad_id |-> r.ad_id, type |-> t, amount |-> a] :
     r \in PaymentRefInputs, t \in {"membership", "boost"}, a \in PaymentAmountInputs}

----------------------------------------------------------------------------
(* Initial state.                                                           *)

Init ==
  /\ users = usersTable
  /\ ads = adsTable
  /\ payments = paymentsTable
  /\ packages = membershipPackagesTable
  /\ categories = categoriesTable
  /\ seq = serialSequences
  /\ now = 1
  /\ calls = [p \in Slots |-> NoCall]

InitOverlap ==
  /\ users = usersTable
  /\ ads = adsTable
  /\ payments = paymentsTable
  /\ packages = membershipPackagesTable
  /\ categories = categoriesTable
  /\ seq = serialSequences
  /\ now = 1
  /\ calls = [p \in OverlapSlots |-> NoCall]

----------------------------------------------------------------------------
(* Handlers as actions: a request arrives and the handler runs up to its    *)
(* first await; Advance runs the statements that follow.                    *)

boostAd ==
  \E ad_id \in AdIdInputs, d \in DurationInputs, u \in UserIdInputs :
    \E p \in DOMAIN calls : NextSlot(p) /\ Begin(p, boostAd_call(ad_id, d, u))

getAdById == \E id \in AdIdInputs :
    \E p \in DOMAIN calls : NextSlot(p) /\ Begin(p, getAdById_call(id))

updateAd ==
  \E id \in AdIdInputs, f \in FieldInputs, u \in UserIdInputs :
    \E p \in DOMAIN calls : NextSlot(p) /\ Begin(p, updateAd_call(id, f, u))

deleteAd ==
  \E id \in AdIdInputs, u \in UserIdInputs \cup {OtherId, AbsentUserId} :
    \E p \in DOMAIN calls : NextSlot(p) /\ Begin(p, deleteAd_call(id, u))

moderateAd ==
  \E id \in AdIdInputs, st \in ModerationInputs, r \in ReasonInputs :
    \E p \in DOMAIN calls : NextSlot(p) /\ Begin(p, moderateAd_call(id, st, r))

incrementContactCount == \E id \in AdIdInputs :
    \E p \in DOMAIN calls : NextSlot(p) /\ Begin(p, incrementContactCount_call(id))

handleMidtransCallback ==
  \E t \in TransactionIdInputs, st \in GatewayStatusInputs :
    \E p \in DOMAIN calls : NextSlot(p) /\ Begin(p, handleMidtransCallback_call(t, st, GatewayResponse(st)))

processSuccessfulPayment ==
  \E id \in PaymentIdInputs :
    \E p \in DOMAIN calls : NextSlot(p) /\ Begin(p, processSuccessfulPayment_call(id))

\* the ad handlers, served as the requests arrive
NextAds ==
  \/ boostAd
  \/ getAdById
  \/ updateAd
  \/ deleteAd
  \/ moderateAd
  \/ incrementContactCount
  \/ Advance

SpecAds == InitOverlap /\ [][NextAds]_vars

\* the payment handlers, served as the requests arrive
NextPay ==
  \/ handleMidtransCallback
  \/ processSuccessfulPayment
  \/ Advance

SpecPay == InitOverlap /\ [][NextPay]_vars

createPayment ==
  \E data \in CreatePaymentInputs, u \in UserIdInputs \cup {AbsentUserId} :
    \E p \in DOMAIN calls : NextSlot(p) /\ Begin(p, createPayment_call(data, u))

\* payments are created and settled by the gateway's callback
NextCreate ==
  \/ createPayment
  \/ handleMidtransCallback
  \/ Advance

SpecCreate == InitOverlap /\ [][NextCreate]_vars

----------------------------------------------------------------------------
(* The public listing: the ads of the listing fixture are moderated,        *)
(* deleted and listed; or boosted and listed, while time passes.            *)

InitList ==
  /\ users = usersTable
  /\ ads = adsListTable
  /\ payments = paymentsTable
  /\ packages = membershipPackagesTable
  /\ categories = categoriesTable
  /\ seq = [serialSequences EXCEPT !.ads = 4]
  /\ now = 2
  /\ calls = [p \in OverlapSlots |-> NoCall]

getAds ==
  \E f \in GetAdsInputs, t \in TiebreakInputs :
    \E p \in DOMAIN calls : NextSlot(p) /\ Begin(p, getAds_call(f, t))

\* a day passes
Tick ==
  /\ now < MaxNow
  /\ now' = now + 1
  /\ UNCHANGED <<users, ads, payments, packages, categories, seq, calls>>

NextList ==
  \/ getAds
  \/ deleteAd
  \/ moderateAd
  \/ Advance

SpecList == InitList /\ [][NextList]_vars

NextBoostedList ==
  \/ getAds
  \/ boostAd
  \/ Tick
  \/ Advance

SpecBoostedList == InitList /\ [][NextBoostedList]_vars

----------------------------------------------------------------------------
(* Accounts: registrations, logins, sessions, and the administration's      *)
(* deactivation and activation of accounts, served as the requests arrive.  *)

AuthSlots == 1..NumAuthCalls

InitAuth ==
  /\ users = usersTable
  /\ ads = adsTable
  /\ payments = paymentsTable
  /\ packages = membershipPackagesTable
  /\ categories = categoriesTable
  /\ seq = serialSequences
  /\ now = 1
  /\ calls = [p \in AuthSlots |-> NoCall]

registerUser ==
  \E data \in RegisterInputs :
    \E p \in DOMAIN calls : NextSlot(p) /\ Begin(p, registerUser_call(data))

loginUser ==
  \E data \in LoginInputs :
    \E p \in DOMAIN calls : NextSlot(p) /\ Begin(p, loginUser_call(data))

getCurrentUser ==
  \E token \in MintedTokens \cup InvalidTokenInputs :
    \E p \in DOMAIN calls : NextSlot(p) /\ Begin(p, getCurrentUser_call(token))

deactivateUser ==
  \E id \in ActivationInputs :
    \E p \in DOMAIN calls : NextSlot(p) /\ Begin(p, deactivateUser_call(id))

activateUser ==
  \E id \in ActivationInputs :
    \E p \in DOMAIN calls : NextSlot(p) /\ Begin(p, activateUser_call(id))

NextAuth ==
  \/ registerUser
  \/ loginUser
  \/ getCurrentUser
  \/ deactivateUser
  \/ activateUser
  \/ Advance

SpecAuth == InitAuth /\ [][NextAuth]_vars

\* the writers of the users table's names and emails, served concurrently:
\* registrations with two emails no user has and with the owner's email, and
\* profile updates
RaceRegisterInputs ==
  {[email |-> e, password |-> "password123", full_name |-> "New User", phone |-> NoText] :
     e \in {"new@example.com", "second@example.com", "owner@example.com"}}

registerUser_begin ==
  \E data \in RaceRegisterInputs :
    \E p \in DOMAIN calls : NextSlot(p) /\ Begin(p, registerUser_call(data))

\* profile updates: the owner's name; the owner's phone and avatar; the name
\* of the user the next registration creates, who does not exist until then
ProfileInputs ==
  {[id |-> OwnerId, fields |-> [full_name |-> "New Name"]],
   [id |-> OwnerId, fields |-> [phone |-> "0899", avatar_url |-> "avatar.png"]],
   [id |-> AbsentUserId, fields |-> [full_name |-> "New Name"]]}

updateUser ==
  \E input \in ProfileInputs :
    \E p \in DOMAIN calls :
      NextSlot(p) /\ Begin(p, updateUser_call(input.id, input.fields))

NextRegister ==
  \/ registerUser_begin
  \/ updateUser
  \/ Advance

SpecRegister == Init /\ [][NextRegister]_vars

----------------------------------------------------------------------------
(* Concurrent calls: requests are served as they arrive, and a handler      *)
(* gives way to the others at every await.                                  *)

\* the membership payment is settled by the gateway's callback, the boost
\* payment is processed by a direct call
RaceTransactionIdInputs == {"TXN1"}
RaceGatewayStatusInputs == {"settlement"}
RacePaymentIdInputs == {2}

boostAd_begin ==
  \E p \in DOMAIN calls : NextSlot(p) /\ Begin(p, boostAd_call(TheAdId, 1, OwnerId))

handleMidtransCallback_begin ==
  \E t \in RaceTransactionIdInputs, st \in RaceGatewayStatusInputs :
    \E p \in DOMAIN calls : NextSlot(p) /\ Begin(p, handleMidtransCallback_call(t, st, GatewayResponse(st)))

processSuccessfulPayment_begin ==
  \E id \in RacePaymentIdInputs :
    \E p \in DOMAIN calls : NextSlot(p) /\ Begin(p, processSuccessfulPayment_call(id))

Next ==
  \/ boostAd_begin
  \/ handleMidtransCallback_begin
  \/ processSuccessfulPayment_begin
  \/ Advance

Spec == Init /\ [][Next]_vars

----------------------------------------------------------------------------
(* The catalog: categories and membership packages are listed, created,     *)
(* updated and deactivated.  Each of these handlers is a single query.      *)

MissingId == 999
CatalogIdInputs == {1, 2, 3, MissingId}
CategoryInputs ==
  {[name |-> "Test Category", description |-> "A category for testing", icon_url |-> NoText]}
CategoryFieldInputs == {[name |-> "Updated Category"], [description |-> "Updated description"]}
PackageInputs ==
  {[name |-> "Premium Package", description |-> "Premium membership with extra features",
    price |-> 2999, duration_days |-> 30, max_ads |-> 10, boost_credits |-> 5,
    features |-> <<"unlimited_views", "priority_support", "advanced_analytics">>]}
PackageFieldInputs == {[name |-> "New Name"], [price |-> 3999, max_ads |-> 20]}

getCategories ==
  \E p \in DOMAIN calls : NextSlot(p) /\ Begin(p, getCategories_call)

createCategory ==
  \E f \in CategoryInputs :
    \E p \in DOMAIN calls : NextSlot(p) /\ Begin(p, createCategory_call(f))

updateCategory ==
  \E id \in CatalogIdInputs, f \in CategoryFieldInputs :
    \E p \in DOMAIN calls : NextSlot(p) /\ Begin(p, updateCategory_call(id, f))

deleteCategory ==
  \E id \in CatalogIdInputs :
    \E p \in DOMAIN calls : NextSlot(p) /\ Begin(p, deleteCategory_call(id))

getMembershipPackages ==
  \E p \in DOMAIN calls : NextSlot(p) /\ Begin(p, getMembershipPackages_call)

createMembershipPackage ==
  \E f \in PackageInputs :
    \E p \in DOMAIN calls : NextSlot(p) /\ Begin(p, createMembershipPackage_call(f))

updateMembershipPackage ==
  \E id \in CatalogIdInputs, f \in PackageFieldInputs :
    \E p \in DOMAIN calls : NextSlot(p) /\ Begin(p, updateMembershipPackage_call(id, f))

deactivateMembershipPackage ==
  \E id \in CatalogIdInputs :
    \E p \in DOMAIN calls : NextSlot(p) /\ Begin(p, deactivateMembershipPackage_call(id))

NextCatalog ==
  \/ getCategories
  \/ createCategory
  \/ updateCategory
  \/ deleteCategory
  \/ getMembershipPackages
  \/ createMembershipPackage
  \/ updateMembershipPackage
  \/ deactivateMembershipPackage

SpecCatalog == Init /\ [][NextCatalog]_vars

----------------------------------------------------------------------------
(* Memberships: packages are assigned directly or through a membership      *)
(* payment, and deactivated, the calls served as they arrive.               *)

MembershipIdInputs == {ThePackageId, InactivePackageId, AbsentPackageId}
\* payments that name a package: of type membership (validated) and of type
\* boost (not validated)
MembershipPaymentInputs ==
  {[membership_id |-> m, ad_id |-> NULL, type |-> t, amount |-> a] :
     m \in MembershipIdInputs, t \in {"membership", "boost"}, a \in PaymentAmountInputs}
MembershipStatusInputs == {"settlement", "deny"}

assignMembershipToUser ==
  \E u \in UserIdInputs \cup {AbsentUserId}, m \in MembershipIdInputs :
    \E p \in DOMAIN calls : NextSlot(p) /\ Begin(p, assignMembershipToUser_call(u, m))

deactivateMembershipPackage_listed ==
  \E id \in MembershipIdInputs :
    \E p \in DOMAIN calls : NextSlot(p) /\ Begin(p, deactivateMembershipPackage_call(id))

createPayment_membership ==
  \E data \in MembershipPaymentInputs, u \in {OwnerId, AbsentUserId} :
    \E p \in DOMAIN calls : NextSlot(p) /\ Begin(p, createPayment_call(data, u))

handleMidtransCallback_membership ==
  \E t \in RaceTransactionIdInputs, st \in MembershipStatusInputs :
    \E p \in DOMAIN calls : NextSlot(p) /\ Begin(p, handleMidtransCallback_call(t, st, GatewayResponse(st)))

NextMembership ==
  \/ assignMembershipToUser
  \/ processSuccessfulPayment
  \/ handleMidtransCallback_membership
  \/ createPayment_membership
  \/ deactivateMembershipPackage_listed
  \/ Advance

SpecMembership == InitOverlap /\ [][NextMembership]_vars

----------------------------------------------------------------------------
(* The mutating handlers of ads and payments, served as the calls arrive,   *)
(* with inputs they accept and inputs they refuse.                          *)

CreateAdInputs ==
  {[category_id |-> k, title |-> "Test Ad", description |-> "Test description",
    price |-> 10000, location |-> "Test Location", contact_info |-> "test@contact.com",
    images |-> <<"image1.jpg">>] :
     k \in {TheCategoryId, InactiveCategoryId, MissingId}}
\* a package is given the largest number of credits the column holds
LargeCreditInputs == {[boost_credits |-> MaxInteger]}

createAd ==
  \E data \in CreateAdInputs, u \in {OwnerId, AbsentUserId} :
    \E p \in DOMAIN calls : NextSlot(p) /\ Begin(p, createAd_call(data, u))

updateMembershipPackage_credits ==
  \E f \in LargeCreditInputs :
    \E p \in DOMAIN calls : NextSlot(p) /\ Begin(p, updateMembershipPackage_call(ThePackageId, f))

NextMutations ==
  \/ createAd
  \/ updateAd
  \/ deleteAd
  \/ boostAd
  \/ moderateAd
  \/ incrementContactCount
  \/ createPayment_membership
  \/ handleMidtransCallback_membership
  \/ processSuccessfulPayment
  \/ updateMembershipPackage_credits
  \/ Advance

SpecMutations == InitOverlap /\ [][NextMutations]_vars

----------------------------------------------------------------------------
(* Concurrent readers of one ad: views and contact clicks are served as     *)
(* they arrive, each handler giving way at its awaits.                      *)

getAdById_begin ==
  \E p \in DOMAIN calls : NextSlot(p) /\ Begin(p, getAdById_call(TheAdId))

incrementContactCount_begin ==
  \E p \in DOMAIN calls : NextSlot(p) /\ Begin(p, incrementContactCount_call(TheAdId))

NextViews ==
  \/ getAdById_begin
  \/ incrementContactCount_begin
  \/ Advance

SpecViews == Init /\ [][NextViews]_vars

----------------------------------------------------------------------------
(* The life of an ad: ads are created, and the ads there are get viewed,    *)
(* edited, boosted, moderated, contacted and deleted, the calls served as   *)
(* they arrive.                                                             *)

\* the owner posts an ad in the active category
createAd_owner ==
  \E data \in {d \in CreateAdInputs : d.category_id = TheCategoryId} :
    \E p \in DOMAIN calls : NextSlot(p) /\ Begin(p, createAd_call(data, OwnerId))

NextLifecycle ==
  \/ createAd_owner
  \/ getAdById
  \/ updateAd
  \/ deleteAd
  \/ boostAd
  \/ moderateAd
  \/ incrementContactCount
  \/ Advance

SpecLifecycle == InitOverlap /\ [][NextLifecycle]_vars

----------------------------------------------------------------------------
(* Sessions: users register and log in, and getCurrentUser is called with   *)
(* the tokens handed out and with texts put together by the caller.         *)

\* texts of the form token_<id>_<number> that no call has handed out: for
\* the owner, and for a user there is not
ForgedTokenInputs == {<<"token", OwnerId, 123456789>>, <<"token", 99999, 123456789>>}

getCurrentUser_forged ==
  \E token \in ForgedTokenInputs \ MintedTokens :
    \E p \in DOMAIN calls : NextSlot(p) /\ Begin(p, getCurrentUser_call(token))

NextSession ==
  \/ registerUser
  \/ loginUser
  \/ getCurrentUser
  \/ getCurrentUser_forged
  \/ Advance

SpecSession == InitAuth /\ [][NextSession]_vars

----------------------------------------------------------------------------
(* Properties.                                                              *)

\* the request of call p arrives in this step, and the handler runs its first
\* statement
CallMade(p) == calls[p].pc = "idle" /\ calls'[p].pc # "idle"
\* call p returns or throws in this step
CallEnded(p) == calls[p].pc # "done" /\ calls'[p].pc = "done"
\* call p runs a statement in this step
Stepped(p) == calls'[p] # calls[p]
\* call p, made in this step, served to its return or throw with no statement
\* of another call in between: the frame it ends with, and the tables then
Served(p) == Run(World', calls'[p])
\* A property of the outcome of a call (what it returns, what it has written
\* when it returns) is stated of Served, in every state the interleaved calls
\* reach; a property of what a handler may write is stated of every statement
\* it runs (Stepped, CallEnded), whatever runs between its statements.

\* C1: in every reachable state, under any interleaving of the statements of
\* boostAd, handleMidtransCallback and processSuccessfulPayment calls, every
\* user's boost_credits is >= 0.
C1_CreditsNonNegative ==
  \A u \in DOMAIN users : users[u].boost_credits >= 0

\* two boostAd calls that both read the same balance of one credit have both
\* succeeded
C1_Witness ==
  \E p, q \in Slots :
    /\ p # q
    /\ calls[p].op = "boostAd" /\ Succeeded(calls[p])
    /\ calls[q].op = "boostAd" /\ Succeeded(calls[q])
    /\ calls[p].users[1].boost_credits = 1
    /\ calls[q].users[1].boost_credits = 1
    /\ users[OwnerId].boost_credits = 0

\* C2: for boostAd calls made one after another by the ad's owner, a call
\* succeeds iff the owner holds at least one credit when it is made, a success
\* lowers boost_credits by exactly 1 whatever duration_days is, and a call
\* made with no credit fails with 'Insufficient boost credits' and changes
\* nothing.
C2_Step ==
  \A p \in DOMAIN calls :
    (/\ CallMade(p)
     /\ calls'[p].op = "boostAd"
     /\ calls'[p].input.id \in DOMAIN ads
     /\ ads[calls'[p].input.id].user_id = calls'[p].input.userId)
    => LET u == calls'[p].input.userId
           before == users[u].boost_credits
           r == Served(p)
       IN /\ Succeeded(r.c) <=> before >= 1
          /\ Succeeded(r.c) => r.w.users[u].boost_credits = before - 1
          /\ before = 0 => /\ r.c.result = "Insufficient boost credits"
                            /\ r.w.users = users
                            /\ r.w.ads = ads

C2_SequentialBoosts == [][C2_Step]_vars

\* the owner spent the last credit on a boost of 7 days, and the next boost, of
\* 1 day, found no credit left and failed
C2_Witness ==
  \E p \in DOMAIN calls :
    /\ p + 1 \in DOMAIN calls
    /\ calls[p].op = "boostAd" /\ Succeeded(calls[p])
    /\ calls[p].input.duration_days = 7
    /\ calls[p].users[1].boost_credits = 1
    /\ calls[p + 1].op = "boostAd"
    /\ calls[p + 1].input.duration_days = 1
    /\ calls[p + 1].result = "Insufficient boost credits"
    /\ users[OwnerId].boost_credits = 0

\* C3: when only boostAd calls of one user run, in any interleaving, the
\* number of calls that succeeded equals the decrease of the user's
\* boost_credits.
C3_EveryBoostPaid ==
  (\A p \in Slots : calls[p].op \in {"none", "boostAd"})
  => Cardinality({p \in Slots : calls[p].op = "boostAd" /\ Succeeded(calls[p])})
       = InitCredits - users[OwnerId].boost_credits

\* C4: once an ad's status is 'deleted', no handler call changes it.
C4_DeletedIsTerminal ==
  [][\A a \in DOMAIN ads :
       ads[a].status = "deleted" => ads'[a].status = "deleted"]_vars

\* C5: updateAd and boostAd called on an ad whose status is 'deleted' change
\* none of the ad's fields, and boostAd consumes no credit for it.
C5_Step ==
  \A p \in DOMAIN calls :
    (/\ CallMade(p)
     /\ calls'[p].op \in {"updateAd", "boostAd"}
     /\ calls'[p].input.id \in DOMAIN ads
     /\ ads[calls'[p].input.id].status = "deleted")
    => /\ Served(p).w.ads[calls'[p].input.id] = ads[calls'[p].input.id]
       /\ Served(p).w.users = users

C5_DeletedAdNotMutated == [][C5_Step]_vars

TerminalStatuses == {"paid", "failed", "cancelled"}

\* the call refers to payment pid: by its id, or by its transaction id
RefersTo(c, pid) ==
  \/ c.op = "processSuccessfulPayment" /\ c.input.id = pid
  \/ /\ c.op = "handleMidtransCallback"
     /\ payments[pid].midtrans_transaction_id = c.input.transactionId

\* the call has written the credits of payment pid to its payer
Granted(c, pid) == Succeeded(c) /\ c.paymentId = pid /\ Len(c.users) > 0

\* C6: after handleMidtransCallback has set a payment's status to 'paid',
\* 'failed' or 'cancelled', no later callback changes that payment's status.
C6_TerminalOnce ==
  [][\A pid \in DOMAIN payments :
       payments[pid].status \in TerminalStatuses
       => payments'[pid].status = payments[pid].status]_vars

\* C7: a call of handleMidtransCallback or processSuccessfulPayment that refers
\* to a payment whose credits an earlier call has granted does not raise the
\* payer's boost_credits again.
C7_Step ==
  \A p \in DOMAIN calls, pid \in DOMAIN payments :
    (/\ CallMade(p)
     /\ RefersTo(calls'[p], pid)
     /\ \E q \in DOMAIN calls : Granted(calls[q], pid))
    => Served(p).w.users[payments[pid].user_id].boost_credits
         <= users[payments[pid].user_id].boost_credits

C7_EntitlementOnce == [][C7_Step]_vars

\* C8: whenever handleMidtransCallback returns true after mapping the status to
\* 'paid', the payer has received the entitlement: a membership payment sets
\* membership_id and adds the package's credits, a boost payment adds
\* floor(amount) credits.
C8_Step ==
  \A p \in DOMAIN calls, pid \in DOMAIN payments :
    (/\ CallMade(p)
     /\ RefersTo(calls'[p], pid)
     /\ calls'[p].op = "handleMidtransCallback"
     /\ Succeeded(Served(p).c)
     /\ Served(p).c.paymentStatus = "paid")
    => LET pay == payments[pid]
           u == pay.user_id
           after == Served(p).w.users
       IN IF pay.type = "membership"
          THEN /\ after[u].membership_id = pay.membership_id
               /\ pay.membership_id \in DOMAIN packages
               /\ after[u].boost_credits =
                    users[u].boost_credits + packages[pay.membership_id].boost_credits
          ELSE after[u].boost_credits =
                 users[u].boost_credits + CreditsToAdd(pay.amount)

C8_PaidMeansEntitled == [][C8_Step]_vars

\* C9: after a successful handleMidtransCallback the payment's status is the
\* mapping of the gateway status (settlement/capture -> paid;
\* deny/expire/failure -> failed; cancel -> cancelled), any other gateway
\* status leaves the status as it was, and the raw response is stored.
C9_Step ==
  \A p \in DOMAIN calls, pid \in DOMAIN payments :
    (/\ CallMade(p)
     /\ RefersTo(calls'[p], pid)
     /\ calls'[p].op = "handleMidtransCallback"
     /\ Succeeded(Served(p).c))
    => LET st == calls'[p].input.status
           after == Served(p).w.payments[pid].status
       IN /\ st \in {"settlement", "capture"} => after = "paid"
          /\ st \in {"deny", "expire", "failure"} => after = "failed"
          /\ st = "cancel" => after = "cancelled"
          /\ st \notin {"settlement", "capture", "deny", "expire", "failure", "cancel"}
               => after = payments[pid].status
          /\ Served(p).w.payments[pid].midtrans_response = calls'[p].input.response

C9_StatusMapping == [][C9_Step]_vars

\* C10: processSuccessfulPayment on a membership payment sets the payer's
\* membership_id to the package and adds exactly the package's boost_credits
\* to the prior balance; on a boost payment it adds exactly floor(amount); no
\* other user's row changes.
C10_Step ==
  \A p \in DOMAIN calls, pid \in DOMAIN payments :
    (/\ CallMade(p)
     /\ calls'[p].op = "processSuccessfulPayment"
     /\ RefersTo(calls'[p], pid)
     /\ Succeeded(Served(p).c))
    => LET pay == payments[pid]
           u == pay.user_id
           after == Served(p).w.users
       IN /\ pay.type = "membership"
               => /\ after[u].membership_id = pay.membership_id
                  /\ pay.membership_id \in DOMAIN packages
                  /\ after[u].boost_credits =
                       users[u].boost_credits + packages[pay.membership_id].boost_credits
          /\ pay.type = "boost"
               => after[u].boost_credits =
                    users[u].boost_credits + CreditsToAdd(pay.amount)
          /\ \A v \in DOMAIN users \ {u} : after[v] = users[v]

C10_EntitlementAmounts == [][C10_Step]_vars

\* C11: createPayment adds a payment row only for a type-appropriate valid
\* reference: a membership payment only if membership_id is an existing active
\* package, a boost payment only if ad_id is an existing ad owned by userId;
\* in every other case, a null reference included, the call fails and adds no
\* row.
C11_Step ==
  \A p \in DOMAIN calls :
    (CallMade(p) /\ calls'[p].op = "createPayment")
    => LET data == calls'[p].input.fields
           r == Served(p)
           valid ==
             \/ /\ data.type = "membership"
                /\ data.membership_id \in DOMAIN packages
                /\ packages[data.membership_id].is_active
             \/ /\ data.type = "boost"
                /\ data.ad_id \in DOMAIN ads
                /\ ads[data.ad_id].user_id = calls'[p].input.userId
       IN /\ DOMAIN r.w.payments # DOMAIN payments => valid
          /\ ~valid => ~Succeeded(r.c) /\ r.w.payments = payments

C11_ValidReference == [][C11_Step]_vars

\* an ad row is effectively boosted at time t
EffectivelyBoosted(ad, t) == ad.is_boosted /\ ad.boost_expires_at > t

\* C12: the result of getAds has every effectively-boosted ad (is_boosted and
\* boost_expires_at > now) before every ad that is not effectively boosted
\* (an ad whose flag is still true but whose expiry has passed included), and
\* is ordered by created_at descending within each of the two groups.
C12_EffectiveBoostFirst ==
  \A p \in DOMAIN calls :
    (calls[p].op = "getAds" /\ Succeeded(calls[p]))
    => LET rows == calls[p].ads
           t == calls[p].stamp
       IN \A i, j \in 1..Len(rows) :
            i < j =>
              /\ ~(~EffectivelyBoosted(rows[i], t) /\ EffectivelyBoosted(rows[j], t))
              /\ EffectivelyBoosted(rows[i], t) = EffectivelyBoosted(rows[j], t)
                   => rows[i].created_at >= rows[j].created_at

\* C13: getAds returns only ads whose status is 'active', whatever the
\* filters: an ad that deleteAd or a rejecting moderateAd has run on, or a
\* draft, is not in the result.
C13_Step ==
  \A p \in DOMAIN calls :
    (CallMade(p) /\ calls'[p].op = "getAds")
    => /\ Succeeded(calls'[p])
       /\ \A i \in 1..Len(calls'[p].ret[1]) :
            /\ calls'[p].ret[1][i].status = "active"
            /\ ads[calls'[p].ret[1][i].id].status = "active"

C13_OnlyActiveListed == [][C13_Step]_vars

\* a listing made after ad 2 was rejected returns the two ads that are still
\* active, and not the rejected ad nor the draft
C13_Witness ==
  \E p, q \in DOMAIN calls :
    /\ q < p
    /\ calls[p].op = "getAds" /\ Succeeded(calls[p])
    /\ calls[q].op = "moderateAd" /\ Succeeded(calls[q])
    /\ calls[q].input.id = 2 /\ calls[q].input.status = "rejected"
    /\ calls[p].input.fields = <<>>
    /\ {calls[p].ret[1][i].id : i \in 1..Len(calls[p].ret[1])} = {1, 3}

\* C14: getAdById calls made one after another on an existing ad raise its
\* stored view_count by exactly the number of calls: each call, served with no
\* other call in between, raises the stored count by one and returns the
\* count stored after it; getAdById on an absent id returns null and changes
\* nothing.
C14_Step ==
  \A p \in DOMAIN calls :
    (CallMade(p) /\ calls'[p].op = "getAdById")
    => LET id == calls'[p].input.id
           r == Served(p)
       IN /\ Succeeded(r.c)
          /\ IF id \in DOMAIN ads
             THEN /\ r.w.ads[id].view_count = ads[id].view_count + 1
                  /\ r.c.ret[1].id = id
                  /\ r.c.ret[1].view_count = r.w.ads[id].view_count
                  /\ \A a \in DOMAIN ads \ {id} : r.w.ads[a] = ads[a]
             ELSE /\ r.c.ret = <<NULL>>
                  /\ r.w.ads = ads
                  /\ r.w.users = users
                  /\ r.w.payments = payments

C14_ViewCount == [][C14_Step]_vars

\* two getAdById calls on the ad, the second made after the first returned,
\* returned the counts 1 and 2, and 2 is stored
C14_Witness ==
  \E p, q \in DOMAIN calls :
    /\ p < q
    /\ calls[p].op = "getAdById" /\ calls[p].input.id = TheAdId
    /\ Succeeded(calls[p]) /\ calls[p].ret[1].view_count = 1
    /\ calls[q].op = "getAdById" /\ calls[q].input.id = TheAdId
    /\ Succeeded(calls[q]) /\ calls[q].ret[1].view_count = 2
    /\ calls[q].ads[1].view_count = 1
    /\ ads[TheAdId].view_count = 2

\* C15: updateAd fails with 'Ad not found' if the ad is absent and with
\* 'Unauthorized - ad does not belong to user' if userId is not the ad's owner,
\* an admin included; on success it changes only the provided fields among
\* title, description, price, location, contact_info, images, plus updated_at,
\* and leaves status, user_id, category_id, is_boosted, boost_expires_at,
\* view_count and contact_count as they were.  The outcome is that of the
\* call served with no other call in between; and whatever calls run in
\* between, no statement of updateAd writes anything but the provided fields
\* and updated_at of its ad.
C15_Step ==
  /\ \A p \in DOMAIN calls :
       (CallMade(p) /\ calls'[p].op = "updateAd")
       => LET id == calls'[p].input.id
              provided == calls'[p].input.fields
              r == Served(p)
          IN /\ r.w.users = users
             /\ \A a \in DOMAIN ads \ {id} : r.w.ads[a] = ads[a]
             /\ DOMAIN r.w.ads = DOMAIN ads
             /\ IF id \notin DOMAIN ads
                THEN r.c.result = "Ad not found"
                ELSE IF ads[id].user_id # calls'[p].input.userId
                THEN /\ r.c.result = "Unauthorized - ad does not belong to user"
                     /\ r.w.ads = ads
                ELSE /\ Succeeded(r.c)
                     /\ \A f \in {"title", "description", "price", "location",
                                   "contact_info", "images"} :
                          r.w.ads[id][f] = IF f \in DOMAIN provided THEN provided[f]
                                           ELSE ads[id][f]
                     /\ r.w.ads[id].updated_at = now
                     /\ \A f \in {"id", "status", "user_id", "category_id", "is_boosted",
                                   "boost_expires_at", "view_count", "contact_count",
                                   "rejection_reason", "created_at"} :
                          r.w.ads[id][f] = ads[id][f]
  /\ \A p \in DOMAIN calls :
       (Stepped(p) /\ calls'[p].op = "updateAd")
       => LET id == calls'[p].input.id
              provided == calls'[p].input.fields
          IN /\ users' = users
             /\ payments' = payments
             /\ DOMAIN ads' = DOMAIN ads
             /\ \A a \in DOMAIN ads \ {id} : ads'[a] = ads[a]
             /\ id \in DOMAIN ads =>
                  \A f \in DOMAIN ads[id] \ (DOMAIN provided \cup {"updated_at"}) :
                    ads'[id][f] = ads[id][f]
             /\ ads' # ads => Succeeded(calls'[p])

C15_UpdateFrame == [][C15_Step]_vars

\* the admin's update of the owner's ad was rejected, and the owner's update
\* of price and location went through and left the title
C15_Witness ==
  \E p, q \in DOMAIN calls :
    /\ calls[p].op = "updateAd" /\ calls[p].input.userId = AdminId
    /\ calls[p].input.id = TheAdId
    /\ calls[p].result = "Unauthorized - ad does not belong to user"
    /\ calls[q].op = "updateAd" /\ calls[q].input.userId = OwnerId
    /\ calls[q].input.id = TheAdId /\ Succeeded(calls[q])
    /\ DOMAIN calls[q].input.fields = {"price", "location"}
    /\ ads[TheAdId].price = 20000 /\ ads[TheAdId].location = "New Location"
    /\ ads[TheAdId].title = "Test Ad"

\* C16: deleteAd succeeds only when userId is the ad's owner or a user with
\* is_admin, and then sets the status to 'deleted' and keeps the row; no
\* handler call removes an ad row; a caller that is neither owner nor admin
\* gets 'Unauthorized - cannot delete this ad' and the ad is unchanged; a
\* deleteAd on an ad already deleted leaves its status 'deleted'.  The outcome
\* is that of the call served with no other call in between; and whatever
\* calls run in between, a statement of deleteAd writes nothing but the
\* status 'deleted' and updated_at of its ad, for a caller it has found to be
\* the owner or an admin.
C16_Step ==
  /\ DOMAIN ads \subseteq DOMAIN ads'
  /\ \A p \in DOMAIN calls :
       (/\ CallMade(p)
        /\ calls'[p].op = "deleteAd"
        /\ calls'[p].input.id \in DOMAIN ads)
       => LET id == calls'[p].input.id
              u == calls'[p].input.userId
              r == Served(p)
          IN /\ Succeeded(r.c)
                  => /\ u \in DOMAIN users
                     /\ ads[id].user_id = u \/ users[u].is_admin
                     /\ r.w.ads[id].status = "deleted"
                     /\ r.w.ads[id] = [ads[id] EXCEPT !.status = "deleted",
                                                     !.updated_at = now]
             /\ (u \in DOMAIN users /\ ads[id].user_id # u /\ ~users[u].is_admin)
                  => /\ r.c.result = "Unauthorized - cannot delete this ad"
                     /\ r.w.ads = ads
             /\ ads[id].status = "deleted" => r.w.ads[id].status = "deleted"
  /\ \A p \in DOMAIN calls :
       (Stepped(p) /\ calls'[p].op = "deleteAd")
       => LET id == calls'[p].input.id
              c == calls'[p]
          IN /\ users' = users
             /\ \A a \in DOMAIN ads \ {id} : ads'[a] = ads[a]
             /\ ads' # ads =>
                  /\ Succeeded(c)
                  /\ c.ads[1].user_id = c.input.userId \/ c.users[1].is_admin
                  /\ ads'[id] = [ads[id] EXCEPT !.status = "deleted",
                                                !.updated_at = c.stamp]

C16_SoftDelete == [][C16_Step]_vars

\* a user who is neither owner nor admin was refused, then the admin deleted
\* the ad, and the row is still there
C16_Witness ==
  \E p, q \in DOMAIN calls :
    /\ p < q
    /\ calls[p].op = "deleteAd" /\ calls[p].input.userId = OtherId
    /\ calls[p].input.id = TheAdId
    /\ calls[p].result = "Unauthorized - cannot delete this ad"
    /\ calls[q].op = "deleteAd" /\ calls[q].input.userId = AdminId
    /\ calls[q].input.id = TheAdId /\ Succeeded(calls[q])
    /\ TheAdId \in DOMAIN ads /\ ads[TheAdId].status = "deleted"

\* the user rows with this email
WithEmail(table, email) == {u \in DOMAIN table : table[u].email = email}

\* C17: emails are unique in every reachable state: a registerUser call made
\* with an email that belongs to a user fails with 'User already exists' and
\* adds no row, and no interleaving of registerUser calls with the same email
\* leaves two user rows with that email.
C17_Step ==
  /\ \A u, v \in DOMAIN users' : u # v => users'[u].email # users'[v].email
  /\ \A u \in DOMAIN users' \ DOMAIN users :
       WithEmail(users, users'[u].email) = {}
  /\ \A p \in DOMAIN calls :
       (/\ calls[p].pc = "idle"
        /\ calls'[p].op = "registerUser"
        /\ WithEmail(users, calls'[p].input.fields.email) # {})
       => /\ calls'[p].result = "User already exists"
          /\ users' = users

C17_UniqueEmails == [][C17_Step]_vars

\* two registerUser calls with the same new email both found no user with it;
\* one inserted the user, the other was refused by the table; and a call made
\* with the owner's email failed with 'User already exists'
C17_Witness ==
  \E p, q, r \in DOMAIN calls :
    /\ p # q
    /\ calls[p].op = "registerUser" /\ Succeeded(calls[p])
    /\ calls[q].op = "registerUser"
    /\ calls[q].input.fields.email = calls[p].input.fields.email
    /\ calls[q].result = "duplicate key value violates unique constraint users_email_unique"
    /\ Cardinality(WithEmail(users, calls[p].input.fields.email)) = 1
    /\ calls[r].op = "registerUser"
    /\ calls[r].input.fields.email = "owner@example.com"
    /\ calls[r].result = "User already exists"

\* C18: every user created by registerUser has boost_credits = 0,
\* is_admin = false, is_active = true and membership_id = null right after
\* the registration, in the table and in the response, whatever the input
\* and whatever calls run between the statements of the registration.
C18_Step ==
  \A p \in DOMAIN calls :
    (CallEnded(p) /\ calls'[p].op = "registerUser" /\ Succeeded(calls'[p]))
    => LET created == DOMAIN users' \ DOMAIN users
           returned == calls'[p].ret[1].user
       IN /\ created = {returned.id}
          /\ \A u \in created :
               /\ users'[u].boost_credits = 0
               /\ users'[u].is_admin = FALSE
               /\ users'[u].is_active = TRUE
               /\ users'[u].membership_id = NULL
               /\ users'[u].email = calls'[p].input.fields.email
               /\ returned = users'[u]

C18_NewUserDefaults == [][C18_Step]_vars

\* a registration went through and its user is in the table
C18_Witness ==
  \E p \in DOMAIN calls :
    /\ calls[p].op = "registerUser" /\ Succeeded(calls[p])
    /\ calls[p].ret[1].user.id \in DOMAIN users
    /\ calls[p].ret[1].user.id \notin DOMAIN usersTable
    /\ users[calls[p].ret[1].user.id].email = "new@example.com"

\* a loginUser call made by this step for an account that is inactive
InactiveLogin(p) ==
  /\ CallMade(p)
  /\ calls'[p].op = "loginUser"
  /\ \E u \in WithEmail(users, calls'[p].input.fields.email) : ~users[u].is_active

\* C19: loginUser for an account with is_active = false always fails with
\* 'User account is inactive', whatever password is supplied, and never
\* returns a token.
C19_Step ==
  \A p \in DOMAIN calls :
    InactiveLogin(p) => calls'[p].result = "User account is inactive"

C19_InactiveLogin == [][C19_Step]_vars

\* C19, amended: loginUser for an account with is_active = false never
\* returns a token: with the account's password it fails with 'User account
\* is inactive', with any other password it fails with 'Invalid credentials';
\* and it writes nothing.
C19_AmendedStep ==
  \A p \in DOMAIN calls :
    InactiveLogin(p)
    => /\ ~Succeeded(calls'[p])
       /\ calls'[p].ret = <<>>
       /\ users' = users
       /\ LET u == CHOOSE v \in WithEmail(users, calls'[p].input.fields.email) : TRUE
          IN calls'[p].result =
               IF users[u].password_hash = hashPassword(calls'[p].input.fields.password)
               THEN "User account is inactive"
               ELSE "Invalid credentials"

C19_InactiveLoginAmended == [][C19_AmendedStep]_vars

\* the owner was deactivated, and then could not log in with the account's
\* password, nor with a wrong one
C19_Witness ==
  \E p, q, r \in DOMAIN calls :
    /\ p < q /\ p < r
    /\ calls[p].op = "deactivateUser" /\ calls[p].input.id = OwnerId
    /\ calls[p].ret = <<TRUE>>
    /\ ~users[OwnerId].is_active
    /\ calls[q].op = "loginUser" /\ calls[q].input.fields.password = "password123"
    /\ calls[q].result = "User account is inactive"
    /\ calls[r].op = "loginUser" /\ calls[r].input.fields.password = "wrongpassword"
    /\ calls[r].result = "Invalid credentials"
    /\ \A t \in DOMAIN calls : calls[t].op \in {"none", "deactivateUser", "loginUser"}

\* call q has minted a token
Minted(q) == calls[q].op \in {"registerUser", "loginUser"} /\ Succeeded(calls[q])

\* C20: a token minted by registerUser or loginUser for user u is valid exactly
\* while u is active: getCurrentUser(token) returns u in every state where
\* u.is_active, fails with 'User account is inactive' after deactivateUser(u)
\* and before the next activateUser(u), and succeeds again with the same token
\* after activateUser(u).
C20_Step ==
  \A p, q \in DOMAIN calls :
    (/\ CallMade(p)
     /\ calls'[p].op = "getCurrentUser"
     /\ Minted(q)
     /\ calls'[p].input.token = calls[q].ret[1].token)
    => LET u == calls[q].ret[1].user.id IN
       /\ u \in DOMAIN users
       /\ users' = users
       /\ IF users[u].is_active
          THEN Succeeded(calls'[p]) /\ calls'[p].ret = <<users[u]>>
          ELSE calls'[p].result = "User account is inactive"

C20_TokenValidWhileActive == [][C20_Step]_vars

\* the owner logged in, was deactivated, the token was refused, the owner was
\* activated, and the same token was accepted
C20_Witness ==
  \E p1, p2, p3, p4, p5 \in DOMAIN calls :
    /\ p1 < p2 /\ p2 < p3 /\ p3 < p4 /\ p4 < p5
    /\ calls[p1].op = "loginUser" /\ Succeeded(calls[p1])
    /\ calls[p1].ret[1].user.id = OwnerId
    /\ calls[p2].op = "deactivateUser" /\ calls[p2].input.id = OwnerId
    /\ calls[p3].op = "getCurrentUser"
    /\ calls[p3].input.token = calls[p1].ret[1].token
    /\ calls[p3].result = "User account is inactive"
    /\ calls[p4].op = "activateUser" /\ calls[p4].input.id = OwnerId
    /\ calls[p5].op = "getCurrentUser"
    /\ calls[p5].input.token = calls[p1].ret[1].token
    /\ Succeeded(calls[p5])
    /\ calls[p5].ret[1].id = OwnerId

\* the ids of the rows a listing returned
ListedIds(rows) == {r.id : r \in rows}

\* C21: deleteCategory and deactivateMembershipPackage are idempotent and
\* soft.  The call returns true exactly when a row with the id existed,
\* active or not; after the call the row exists with is_active = false and
\* a listing made then (getCategories, getMembershipPackages) leaves it out;
\* and no catalog operation removes a row of either table.
C21_Step ==
  /\ DOMAIN categories \subseteq DOMAIN categories'
  /\ DOMAIN packages \subseteq DOMAIN packages'
  /\ \A p \in DOMAIN calls : CallMade(p) =>
       LET c == calls'[p]
           id == c.input.id
       IN /\ c.op = "deleteCategory" =>
               /\ Succeeded(c)
               /\ c.ret[1] = (id \in DOMAIN categories)
               /\ id \in DOMAIN categories =>
                    /\ id \in DOMAIN categories'
                    /\ ~categories'[id].is_active
                    /\ id \notin ListedIds(Run(World', getCategories_call).c.ret[1])
          /\ c.op = "deactivateMembershipPackage" =>
               /\ Succeeded(c)
               /\ c.ret[1] = (id \in DOMAIN packages)
               /\ id \in DOMAIN packages =>
                    /\ id \in DOMAIN packages'
                    /\ ~packages'[id].is_active
                    /\ id \notin ListedIds(Run(World', getMembershipPackages_call).c.ret[1])

C21_SoftDeactivation == [][C21_Step]_vars

\* a category deactivated twice, both calls returning true, and a package
\* deactivated; the rows are still there, inactive
C21_Witness ==
  /\ \E p, q \in DOMAIN calls :
       /\ p < q
       /\ calls[p].op = "deleteCategory" /\ calls[q].op = "deleteCategory"
       /\ calls[p].input.id = TheCategoryId /\ calls[q].input.id = TheCategoryId
       /\ calls[p].ret = <<TRUE>> /\ calls[q].ret = <<TRUE>>
  /\ \E p \in DOMAIN calls :
       /\ calls[p].op = "deactivateMembershipPackage"
       /\ calls[p].input.id = ThePackageId
       /\ calls[p].ret = <<TRUE>>
  /\ TheCategoryId \in DOMAIN categories /\ ~categories[TheCategoryId].is_active
  /\ ThePackageId \in DOMAIN packages /\ ~packages[ThePackageId].is_active

\* the membership_id of every user is null or the id of a package row
MembershipsExist(userRows, packageRows) ==
  \A u \in DOMAIN userRows :
    userRows[u].membership_id = NULL \/ userRows[u].membership_id \in DOMAIN packageRows

\* C22: after every call of assignMembershipToUser, processSuccessfulPayment,
\* handleMidtransCallback, createPayment and deactivateMembershipPackage each
\* user's membership_id is null or the id of an existing package, after
\* every statement of these calls too; and assignMembershipToUser throws and
\* leaves the users as they were when the package is absent or inactive or
\* the user is absent, and writes nothing in a call that throws, whatever
\* calls run in between.
C22_Step ==
  /\ MembershipsExist(users', packages')
  /\ \A p \in DOMAIN calls :
       CallMade(p) /\ calls'[p].op = "assignMembershipToUser" =>
         LET r == Served(p)
             m == r.c.input.id
             u == r.c.input.userId
         IN (m \notin DOMAIN packages \/ ~packages[m].is_active \/ u \notin DOMAIN users)
              => ~Succeeded(r.c) /\ r.w.users = users
  /\ \A p \in DOMAIN calls :
       (Stepped(p) /\ calls'[p].op = "assignMembershipToUser" /\ users' # users)
         => Succeeded(calls'[p])

C22_MembershipExists == [][C22_Step]_vars

\* the owner holds a package assigned directly, and an assignment of
\* another package, an inactive one, has been refused since
C22_Witness ==
  /\ users[OwnerId].membership_id = ThePackageId
  /\ \E p, q \in DOMAIN calls :
       /\ p < q
       /\ calls[p].op = "assignMembershipToUser" /\ Succeeded(calls[p])
       /\ calls[p].input.userId = OwnerId
       /\ calls[q].op = "assignMembershipToUser"
       /\ calls[q].input.id = InactivePackageId
       /\ calls[q].result = "Membership package not found or inactive"

MutatingHandlers ==
  {"createAd", "updateAd", "deleteAd", "boostAd", "moderateAd", "incrementContactCount",
   "createPayment", "handleMidtransCallback", "processSuccessfulPayment"}

\* C23: a mutating call of an ad or payment handler that throws leaves the
\* users, ads and payments tables exactly as they were before the call.
C23_Step ==
  \A p \in DOMAIN calls :
    (CallMade(p) /\ calls'[p].op \in MutatingHandlers /\ ~Succeeded(Served(p).c))
      => LET after == Served(p).w
         IN after.users = users /\ after.ads = ads /\ after.payments = payments

C23_FailureLeavesStore == [][C23_Step]_vars

\* a boostAd call of this user that has read the balance 1
BoostReadOne(c, u) ==
  /\ c.op = "boostAd" /\ c.input.userId = u
  /\ Len(c.users) > 0 /\ c.users[1].boost_credits = 1

\* the step in which call q, having read the balance 1, writes its debit,
\* after another call p of the same user that read 1 has debited and returned
SecondDebit(p, q, u) ==
  /\ p # q
  /\ BoostReadOne(calls[p], u) /\ Succeeded(calls[p])
  /\ BoostReadOne(calls[q], u) /\ calls[q].pc = "boostAd_updateUser"
  /\ calls'[q].pc = "done"

\* C24 as stated: when two boostAd calls of one user have both read
\* boost_credits = 1 and passed the check, the second debit leaves the
\* user's boost_credits at -1.
C24_Step ==
  \A p, q \in DOMAIN calls : \A u \in DOMAIN users :
    SecondDebit(p, q, u) => users'[u].boost_credits = -1

C24_RaceEndsNegative == [][C24_Step]_vars

\* C24, amended: when two boostAd calls of one user have both read
\* boost_credits = 1 and passed the check, both succeed and the second debit
\* writes again the value read minus one: boost_credits ends at 0, one debit
\* lost.
C24_AmendedStep ==
  \A p, q \in DOMAIN calls : \A u \in DOMAIN users :
    SecondDebit(p, q, u) =>
      /\ users'[u].boost_credits = 0
      /\ Succeeded(calls'[q])

C24_RaceEndsAtZero == [][C24_AmendedStep]_vars

\* two boosts of the owner, both having read the single credit, have both
\* returned, no other call was made, and the balance is 0
C24_Witness ==
  /\ \E p, q \in DOMAIN calls :
       /\ p # q
       /\ BoostReadOne(calls[p], OwnerId) /\ Succeeded(calls[p])
       /\ BoostReadOne(calls[q], OwnerId) /\ Succeeded(calls[q])
  /\ \A p \in DOMAIN calls : calls[p].op \in {"boostAd", "none"}
  /\ users[OwnerId].boost_credits = 0

\* the getAdById calls on the ad that have returned
ViewsReturned == {p \in DOMAIN calls : calls[p].op = "getAdById" /\ Succeeded(calls[p])}

\* C25: getAdById increments and returns atomically.  When k concurrent
\* getAdById calls on the ad have all returned, in whatever interleaving,
\* the stored view_count is its initial value + k and the k calls have
\* returned k distinct view_count values.
C25_AtomicViews ==
  (\A p \in DOMAIN calls : ~Running(p)) =>
    /\ ads[TheAdId].view_count = adsTable[TheAdId].view_count + Cardinality(ViewsReturned)
    /\ \A p, q \in ViewsReturned :
         p # q => calls[p].ret[1].view_count # calls[q].ret[1].view_count

\* C29: an ad's view_count and contact_count never decrease: in every step
\* of every execution, interleaved getAdById and incrementContactCount calls
\* on the same ad included, each stored counter is at least its value before.
C29_Step ==
  \A a \in DOMAIN ads :
    /\ ads'[a].view_count >= ads[a].view_count
    /\ ads'[a].contact_count >= ads[a].contact_count

C29_CountersMonotonic == [][C29_Step]_vars

\* the statement run in this step is a statement of a call of this handler
Made(op) == \E p \in DOMAIN calls : Stepped(p) /\ calls'[p].op = op

\* C26: ad status changes only along the specified moves.  A new ad starts
\* in 'draft'; the status of an existing ad becomes 'active' or 'rejected'
\* only by moderateAd and 'deleted' only by deleteAd, and never becomes
\* 'draft' or 'expired'; updateAd, boostAd, getAdById and
\* incrementContactCount leave every status as it was.
C26_Step ==
  /\ \A a \in DOMAIN ads' \ DOMAIN ads :
       Made("createAd") /\ ads'[a].status = "draft"
  /\ \A a \in DOMAIN ads :
       ads'[a].status # ads[a].status =>
         \/ ads'[a].status \in {"active", "rejected"} /\ Made("moderateAd")
         \/ ads'[a].status = "deleted" /\ Made("deleteAd")
  /\ (Made("updateAd") \/ Made("boostAd") \/ Made("getAdById")
        \/ Made("incrementContactCount") \/ Made("createAd")) =>
       \A a \in DOMAIN ads : ads'[a].status = ads[a].status

C26_StatusMoves == [][C26_Step]_vars

\* an ad made by createAd as a draft has been approved by moderateAd
C26_Witness ==
  \E p, q \in DOMAIN calls :
    /\ p < q
    /\ calls[p].op = "createAd" /\ Succeeded(calls[p])
    /\ calls[p].ret[1].status = "draft"
    /\ calls[q].op = "moderateAd" /\ Succeeded(calls[q])
    /\ calls[q].input.id = calls[p].ret[1].id
    /\ calls[q].ret[1].status = "active"
    /\ ads[calls[p].ret[1].id].status = "active"

\* C28: in every state the handlers reach, an ad with is_boosted = true has
\* a boost_expires_at that is not null; right after a successful boostAd the
\* ad is effectively boosted (is_boosted, and boost_expires_at later than
\* now); and no handler sets is_boosted back to false.
C28_Step ==
  /\ \A a \in DOMAIN ads' : ads'[a].is_boosted => ads'[a].boost_expires_at # NULL
  /\ \A p \in DOMAIN calls :
       (CallEnded(p) /\ calls'[p].op = "boostAd" /\ Succeeded(calls'[p])) =>
         EffectivelyBoosted(ads'[calls'[p].input.id], now')
  /\ \A a \in DOMAIN ads : ads[a].is_boosted => ads'[a].is_boosted

C28_BoostedHasExpiry == [][C28_Step]_vars

\* an ad was boosted, then rejected by moderateAd, and is boosted still
C28_Witness ==
  \E p, q \in DOMAIN calls :
    /\ p < q
    /\ calls[p].op = "boostAd" /\ Succeeded(calls[p])
    /\ calls[q].op = "moderateAd" /\ Succeeded(calls[q])
    /\ calls[q].input.id = calls[p].input.id
    /\ calls[q].input.status = "rejected"
    /\ calls[q].ads[1].is_boosted
    /\ ads[calls[p].input.id].status = "rejected"
    /\ EffectivelyBoosted(ads[calls[p].input.id], now)

\* C27: entitlement is granted only for a payment that has reached 'paid':
\* a call of processSuccessfulPayment or handleMidtransCallback for a payment
\* whose status is 'pending', 'failed' or 'cancelled' changes no user's
\* membership_id or boost_credits.
C27_Step ==
  \A p \in DOMAIN calls, pid \in DOMAIN payments :
    (/\ CallMade(p)
     /\ RefersTo(calls'[p], pid)
     /\ Served(p).w.payments[pid].status \in {"pending", "failed", "cancelled"})
    => \A u \in DOMAIN users :
         /\ Served(p).w.users[u].membership_id = users[u].membership_id
         /\ Served(p).w.users[u].boost_credits = users[u].boost_credits

C27_PaidOnly == [][C27_Step]_vars

\* C30: getCurrentUser returns user u only for a token that an earlier
\* successful registerUser or loginUser call returned for u; a token that
\* was never handed out is rejected.
C30_Step ==
  \A p \in DOMAIN calls :
    (CallMade(p) /\ calls'[p].op = "getCurrentUser" /\ Succeeded(calls'[p])) =>
      \E q \in DOMAIN calls :
        /\ Minted(q)
        /\ calls[q].ret[1].token = calls'[p].input.token
        /\ calls[q].ret[1].user.id = calls'[p].ret[1].id

C30_OnlyMintedTokens == [][C30_Step]_vars

====
